---- MODULE Spec2Model ----
(***************************************************************************)
(* Sheet-as-database reconciliation layer of MeetingRoomBooking            *)
(* (services/googleSheets.js, BookingModal.jsx, Dashboard.jsx).            *)
(*                                                                         *)
(* The spreadsheet is the only durable state: one tab per month, each a    *)
(* sequence of 9-column rows (A..I).  Cells are strings, as the values     *)
(* API and the CSV export return them.  Every Facade operation is          *)
(* translated request by request; the single-writer specifications run a   *)
(* whole handler as one step, the two-client specification runs each       *)
(* network request as its own step.                                        *)
(***************************************************************************)
EXTENDS Integers, Sequences, FiniteSets, TLC

VARIABLES
    sheet,      \* gid -> rows of that tab (row 1 first), trailing blank rows cut
    bookings,   \* client -> Dashboard state `bookings` (last fetchBookings result)
    result,     \* client -> outcome of the client's last Facade call
    pc,         \* client -> position of the client inside createBooking
    req,        \* client -> locals of the createBooking call in flight
    cache,      \* client -> localStorage item mrb_bookings: <<list>>, <<>> when absent
    gidCache,   \* client -> the gidCache object of the client's sheet locator
    clock,      \* new Date(): the month the clock shows, [y, m]
    sheets      \* the tabs of the spreadsheet in their order: [sheetId, title, label]

vars == <<sheet, bookings, result, pc, req, cache, gidCache, clock, sheets>>

(***************************************************************************)
(* Bounds of the model                                                     *)
(***************************************************************************)
MaxRows == 2        \* one-off booking rows a tab may hold below its header
MaxFixed == 2       \* fixed-schedule rows the header region may hold
MaxHeaderRow == 6   \* the lowest row the DATE/DAY header may be pushed to

(***************************************************************************)
(* Program constants                                                       *)
(***************************************************************************)
NaN == -1                   \* parseInt / Number failure, and JS null for numbers
FirstScanIndex == 4         \* fetchBookings, findBookingRow: for (let i = 4; ...)
FirstDataRow == 6           \* createBooking reads A6:I1000, default insert row 6
BookingTableFirstRow == 5   \* create/updateFixedSchedule read A5:I100
BookingTableLastRow == 100
FixedReadLastRow == 30      \* fetchFixedSchedules reads A1:I30
FixedScanLastRow == 20      \* createFixedSchedule / deleteFixedSchedule read rows 1..20
DefaultHeaderRow == 3       \* createFixedSchedule: let headerRowIndex = 3
NoonHour == 12              \* isMorning = startHour < 12
GraceMinutes == 5           \* subMinutes(new Date(), 5)

ROOMS == <<"nha-trang", "da-lat">>
RoomIds == {ROOMS[k] : k \in 1..Len(ROOMS)}

monthNames == <<"JANUARY", "FEBRUARY", "MARCH", "APRIL", "MAY", "JUNE", "JULY",
                "AUGUST", "SEPTEMBER", "OCTOBER", "NOVEMBER", "DECEMBER">>

(***************************************************************************)
(* The clock and the calendar (`new Date()` and Date getters).  A date is  *)
(* [y, m, d] with the JS month index m in 0..11; an instant adds min, the  *)
(* minute of the local day.                                                *)
(***************************************************************************)
Now == [y |-> 2025, m |-> 11, d |-> 29, min |-> 480]

DaysInMonth(y, m) ==
    IF m = 1 THEN (IF y % 4 = 0 /\ (y % 100 # 0 \/ y % 400 = 0) THEN 29 ELSE 28)
    ELSE IF m \in {3, 5, 8, 10} THEN 30 ELSE 31

\* Date.prototype.getDay(): 0 = Sunday.  1 December 2025 is a Monday,
\* 1 January 2026 a Thursday.
getDay(date) ==
    IF date.y = 2025 /\ date.m = 11 THEN date.d % 7
    ELSE IF date.y = 2026 /\ date.m = 0 THEN (date.d + 3) % 7
    ELSE (date.d + 3 + 31 * date.m) % 7

Instant(date, min) == [y |-> date.y, m |-> date.m, d |-> date.d, min |-> min]
DateOf(t) == [y |-> t.y, m |-> t.m, d |-> t.d]
\* Date.prototype.getTime(), up to an order-preserving change of unit
getTime(t) == ((t.y * 12 + t.m) * 32 + t.d) * 1440 + t.min

(***************************************************************************)
(* Strings.  TLC cannot index a string, so each string function of the     *)
(* code is tabulated over the cell vocabulary of the model.                *)
(***************************************************************************)
padStart2(n) == IF n < 10 THEN "0" \o ToString(n) ELSE ToString(n)
\* date-fns format(d, "H:mm") and format(d, "HH:mm")
formatHmm(min) == ToString(min \div 60) \o ":" \o padStart2(min % 60)
formatHHmm(min) == padStart2(min \div 60) \o ":" \o padStart2(min % 60)

HalfHours == {h * 60 + mm : h \in 0..23, mm \in {0, 30}}
TimeTable ==
    [s \in {formatHmm(t) : t \in HalfHours} \cup {formatHHmm(t) : t \in HalfHours}
        |-> CHOOSE t \in HalfHours : formatHmm(t) = s \/ formatHHmm(t) = s]
IsTimeString(s) == s \in DOMAIN TimeTable

DayTable == [s \in {ToString(n) : n \in 0..31} |-> CHOOSE n \in 0..31 : ToString(n) = s]
\* parseInt(cell): the number of a string of digits, or NaN for "", "DATE", a month label, ...
parseInt(s) == IF s \in DOMAIN DayTable THEN DayTable[s] ELSE NaN

\* (cell || "").toString().toUpperCase().trim()
UpperTrim(s) ==
    CASE s = "Nha Trang" -> "NHA TRANG"
      [] s = "Da Lat" -> "DA LAT"
      [] s = "true" -> "TRUE"
      [] s = " true " -> "TRUE"
      [] OTHER -> s
\* String.prototype.includes on upper-cased cells
YearStrings == {"2025", "2026", "2027"}
MonthNameSet == {monthNames[k] : k \in 1..12}
includes(s, sub) ==
    CASE sub = "NHA TRANG" -> s \in {"NHA TRANG", "MEETING ROOM NHA TRANG"}
      [] sub = "DA LAT" -> s \in {"DA LAT", "MEETING ROOM DA LAT"}
      [] sub = "MEETING ROOM" -> s \in {"MEETING ROOM NHA TRANG", "MEETING ROOM DA LAT"}
      [] sub \in MonthNameSet -> s \in {sub} \cup {sub \o " " \o yr : yr \in YearStrings}
      [] sub \in YearStrings -> s \in {mn \o " " \o sub : mn \in MonthNameSet}
      [] OTHER -> s = sub

(***************************************************************************)
(* Rows and the grid operations of the Sheets API                          *)
(***************************************************************************)
BlankRow == [a |-> "", b |-> "", c |-> "", d |-> "", e |-> "", f |-> "", g |-> "",
             h |-> "", i |-> ""]
HeaderRow == [a |-> "DATE", b |-> "DAY", c |-> "BOOKING STAFF",
              d |-> "MEETING ROOM NHA TRANG", e |-> "MEETING ROOM DA LAT",
              f |-> "", g |-> "", h |-> "", i |-> ""]
LabelRow(month) == [BlankRow EXCEPT !.a = month]

RECURSIVE Trim(_)
\* the grid below the last used row is blank: keep rows up to the last used one
Trim(rows) ==
    IF rows # <<>> /\ rows[Len(rows)] = BlankRow THEN Trim(SubSeq(rows, 1, Len(rows) - 1))
    ELSE rows

Blanks(n) == [k \in 1..n |-> BlankRow]
Pad(rows, n) == IF Len(rows) >= n THEN rows ELSE rows \o Blanks(n - Len(rows))
RowAt(rows, n) == IF n >= 1 /\ n <= Len(rows) THEN rows[n] ELSE BlankRow

\* values.get of rows first..last: the rows up to the last non-empty one
ValuesGet(rows, first, last) ==
    IF Len(rows) < first THEN <<>>
    ELSE SubSeq(rows, first, IF Len(rows) < last THEN Len(rows) ELSE last)

\* batchUpdate insertDimension, startIndex = rowNumber - 1: a blank row at rowNumber
insertDimension(rows, rowNumber) ==
    IF rowNumber > Len(rows) THEN rows
    ELSE SubSeq(rows, 1, rowNumber - 1) \o <<BlankRow>> \o SubSeq(rows, rowNumber, Len(rows))

\* batchUpdate deleteDimension, startIndex = index (0-based)
deleteDimension(rows, index) ==
    IF index + 1 > Len(rows) \/ index < 0 THEN rows
    ELSE Trim(SubSeq(rows, 1, index) \o SubSeq(rows, index + 2, Len(rows)))

\* values.update of A<rowNumber>:I<rowNumber>
valuesUpdate(rows, rowNumber, row) ==
    Trim([Pad(rows, rowNumber) EXCEPT ![rowNumber] = row])

\* updateCells of columns C..I of one row (fields: userEnteredValue)
updateCellsCI(rows, rowNumber, src) ==
    LET old == RowAt(rows, rowNumber)
    IN  valuesUpdate(rows, rowNumber,
            [old EXCEPT !.c = src.c, !.d = src.d, !.e = src.e, !.f = src.f,
                        !.g = src.g, !.h = src.h, !.i = src.i])

(***************************************************************************)
(* Sheet Locator                                                           *)
(***************************************************************************)
\* spreadsheets.get?fields=sheets.properties: the tabs in their order
SheetsMeta == << [sheetId |-> "0", title |-> "DECEMBER"],
                 [sheetId |-> "1111", title |-> "JANUARY 2026"] >>
Gids == {SheetsMeta[k].sheetId : k \in 1..Len(SheetsMeta)}
commonGids == <<"0", "240206239">>
NotFound == "SheetNotFound"

RECURSIVE detectFrom(_, _, _)
detectFrom(k, targetMonthName, sh) ==
    IF k > Len(commonGids) THEN ""
    ELSE LET gid == commonGids[k]
         IN  IF gid \in DOMAIN sh /\ Len(sh[gid]) > 0
                /\ UpperTrim(sh[gid][1].a) # ""
                /\ includes(UpperTrim(sh[gid][1].a), targetMonthName)
             THEN gid
             ELSE detectFrom(k + 1, targetMonthName, sh)
\* "" stands for null
detectGidViaCSV(targetMonthName, sh) == detectFrom(1, targetMonthName, sh)

RECURSIVE titleMatch(_, _, _, _, _)
titleMatch(k, targetMonthName, targetYearStr, monthOnly, targetMonth) ==
    IF k > Len(SheetsMeta) THEN ""
    ELSE LET sheetTitle == SheetsMeta[k].title
             hasMonth == includes(sheetTitle, targetMonthName)
             hasYear == includes(sheetTitle, targetYearStr)
         IN  IF hasMonth /\ (monthOnly \/ hasYear \/ targetMonth = Now.m)
             THEN SheetsMeta[k].sheetId
             ELSE titleMatch(k + 1, targetMonthName, targetYearStr, monthOnly, targetMonth)

getMonthSheetGID(date, sh) ==
    LET targetMonthName == monthNames[date.m + 1]
        targetYearStr == ToString(date.y)
        isCurrentMonth == date.m = Now.m /\ date.y = Now.y
        csvGid == detectGidViaCSV(targetMonthName, sh)
        withYear == titleMatch(1, targetMonthName, targetYearStr, FALSE, date.m)
        byMonth == titleMatch(1, targetMonthName, targetYearStr, TRUE, date.m)
        isFutureMonth == date.y > Now.y \/ (date.y = Now.y /\ date.m > Now.m)
    IN  IF isCurrentMonth /\ csvGid # "" THEN csvGid
        ELSE IF withYear # "" THEN withYear
        ELSE IF byMonth # "" THEN byMonth
        ELSE IF csvGid # "" THEN csvGid
        ELSE IF isFutureMonth THEN NotFound
        ELSE "0"

getCurrentMonthSheetGID(sh) == getMonthSheetGID([y |-> Now.y, m |-> Now.m, d |-> Now.d], sh)

\* title of the tab with this gid (createBooking, getSheetNameFromGid); the
\* requests then address the tab by that title
RECURSIVE titleOfFrom(_, _)
titleOfFrom(k, gid) ==
    IF k > Len(SheetsMeta) THEN ""
    ELSE IF SheetsMeta[k].sheetId = gid THEN SheetsMeta[k].title
    ELSE titleOfFrom(k + 1, gid)
getSheetNameFromGid(gid) == titleOfFrom(1, gid)
RECURSIVE gidOfTitleFrom(_, _)
gidOfTitleFrom(k, title) ==
    IF k > Len(SheetsMeta) THEN ""
    ELSE IF SheetsMeta[k].title = title THEN SheetsMeta[k].sheetId
    ELSE gidOfTitleFrom(k + 1, title)
\* the tab a values request "<title>!A1:I9" reads or writes
TabOfTitle(title) == gidOfTitleFrom(1, title)


(***************************************************************************)
(* Identifiers.  An id is kept as the list of its "-"-separated parts,     *)
(* which is what bookingId.split("-") and the fixed-id regex work on.      *)
(***************************************************************************)
split(roomId) == IF roomId = "nha-trang" THEN <<"nha", "trang">>
                 ELSE IF roomId = "da-lat" THEN <<"da", "lat">>
                 ELSE <<roomId>>
join(parts) == IF parts = <<"nha", "trang">> THEN "nha-trang"
               ELSE IF parts = <<"da", "lat">> THEN "da-lat"
               ELSE IF Len(parts) = 1 THEN parts[1]
               ELSE "?"

(***************************************************************************)
(* Row Interpreter - fixed schedules (fetchFixedSchedules, API path)       *)
(***************************************************************************)
matchesTime(cell) == cell # "" /\ IsTimeString(cell)

fixedRowTimes(row) ==
    LET colF == row.f
        colG == row.g
        colH == row.h
        colI == row.i
        foundTimes == SelectSeq(<<colF, colG, colH, colI>>, matchesTime)
    IN  IF matchesTime(colF) /\ matchesTime(colG) THEN <<colF, colG>>
        ELSE IF matchesTime(colH) /\ matchesTime(colI) THEN <<colH, colI>>
        ELSE IF Len(foundTimes) >= 2 THEN <<foundTimes[1], foundTimes[2]>>
        ELSE <<"", "">>

fixedRowRoom(row) ==
    LET colD == UpperTrim(row.d)
        colE == UpperTrim(row.e)
    IN  IF colD # "" /\ includes(colD, "NHA TRANG") THEN "nha-trang"
        ELSE IF colE # "" /\ includes(colE, "DA LAT") THEN "da-lat"
        ELSE ""

isBookingHeader(row) == UpperTrim(row.a) = "DATE" /\ UpperTrim(row.b) = "DAY"

ExpandDays == 7     \* for (let dayOfWeek = 0; dayOfWeek < 7; dayOfWeek++)

fixedRowEntries(row, rowNum) ==
    LET staffName == row.c
        roomId == fixedRowRoom(row)
        times == fixedRowTimes(row)
    IN  IF staffName = "" \/ roomId = "" \/ times[1] = "" \/ times[2] = "" THEN <<>>
        ELSE [k \in 1..ExpandDays |->
                [id |-> <<"fixed", ToString(rowNum), ToString(k - 1)>> \o split(roomId),
                 dayOfWeek |-> k - 1,
                 room_id |-> roomId,
                 start_time |-> formatHHmm(TimeTable[times[1]]),
                 end_time |-> formatHHmm(TimeTable[times[2]]),
                 staff_name |-> staffName,
                 row |-> rowNum]]

RECURSIVE fixedFrom(_, _)
fixedFrom(rows, rowNum) ==
    IF rowNum > Len(rows) THEN <<>>
    ELSE IF isBookingHeader(rows[rowNum]) THEN <<>>
    ELSE fixedRowEntries(rows[rowNum], rowNum) \o fixedFrom(rows, rowNum + 1)

\* the fixed schedules of the current month's tab, 7 entries per valid row
fetchFixedSchedules(sh) ==
    LET gid == getCurrentMonthSheetGID(sh)
        sheetName == getSheetNameFromGid(gid)
        rows == ValuesGet(sh[TabOfTitle(sheetName)], 1, FixedReadLastRow)
    IN  fixedFrom(rows, 2)

(***************************************************************************)
(* Row Interpreter - bookings (convertFixedSchedulesToBookings,            *)
(* fetchBookings)                                                          *)
(***************************************************************************)
\* "HH:mm".split(":").map(Number) as the minute of the day
minutesOf(timeStr) == IF IsTimeString(timeStr) THEN TimeTable[timeStr] ELSE NaN

RECURSIVE Flatten(_)
Flatten(seqs) == IF seqs = <<>> THEN <<>> ELSE Head(seqs) \o Flatten(Tail(seqs))

\* the conversion without the test against today
convertFixedSchedulesToBookingsWholeMonth(fixedSchedules, year, monthIndex) ==
    IF year # Now.y \/ monthIndex # Now.m THEN <<>>
    ELSE
      LET daysInMonth == DaysInMonth(year, monthIndex)
          daySeq == [k \in 1..daysInMonth |-> k]
          occurrences(schedule) ==
            LET days == SelectSeq(daySeq,
                          LAMBDA day :
                            schedule.dayOfWeek = getDay([y |-> year, m |-> monthIndex, d |-> day]))
            IN  [k \in 1..Len(days) |->
                   [id |-> <<"fixed">> \o schedule.id \o <<ToString(days[k])>>,
                    room_id |-> schedule.room_id,
                    title |-> "Fixed: " \o schedule.staff_name,
                    requested_by |-> schedule.staff_name,
                    start_time |-> [y |-> year, m |-> monthIndex, d |-> days[k],
                               min |-> minutesOf(schedule.start_time)],
                    end_time |-> [y |-> year, m |-> monthIndex, d |-> days[k],
                             min |-> minutesOf(schedule.end_time)],
                    isFixedSchedule |-> TRUE]]
      IN  Flatten([k \in 1..Len(fixedSchedules) |-> occurrences(fixedSchedules[k])])

convertFixedSchedulesToBookings(fixedSchedules, year, monthIndex) ==
    IF year # Now.y \/ monthIndex # Now.m THEN <<>>
    ELSE
      LET daysInMonth == DaysInMonth(year, monthIndex)
          daySeq == [k \in 1..daysInMonth |-> k]
          occurrences(schedule) ==
            LET days == SelectSeq(daySeq,
                          LAMBDA day :
                            /\ schedule.dayOfWeek = getDay([y |-> year, m |-> monthIndex, d |-> day])
                            /\ day >= Now.d)
            IN  [k \in 1..Len(days) |->
                   [id |-> <<"fixed">> \o schedule.id \o <<ToString(days[k])>>,
                    room_id |-> schedule.room_id,
                    title |-> "Fixed: " \o schedule.staff_name,
                    requested_by |-> schedule.staff_name,
                    start_time |-> [y |-> year, m |-> monthIndex, d |-> days[k],
                               min |-> minutesOf(schedule.start_time)],
                    end_time |-> [y |-> year, m |-> monthIndex, d |-> days[k],
                             min |-> minutesOf(schedule.end_time)],
                    isFixedSchedule |-> TRUE]]
      IN  Flatten([k \in 1..Len(fixedSchedules) |-> occurrences(fixedSchedules[k])])

\* the room-flag test of fetchBookings, findBookingRow and the fixed-schedule writers
\* every non-empty flag cell assigns the room
isRoomFlagNonEmpty(cell, roomName) ==
    UpperTrim(cell) # ""

isRoomFlag(cell, roomName) ==
    LET v == UpperTrim(cell)
    IN  v # "" /\ (v = "TRUE" \/ includes(v, roomName))

getMonthIndex(monthStr) ==
    IF \E k \in 1..12 : monthNames[k] = UpperTrim(monthStr)
    THEN (CHOOSE k \in 1..12 : monthNames[k] = UpperTrim(monthStr)) - 1
    ELSE -1

\* addBooking of fetchBookings: zero or one booking for one time pair of a row
addBooking(roomId, startStr, endStr, day, staff, currentYear, monthIndex) ==
    IF startStr = "" \/ endStr = "" THEN <<>>
    ELSE LET start == minutesOf(startStr)      \* parse(timeStr, "H:mm", dateBase)
             end == minutesOf(endStr)
         IN  IF start # NaN /\ end # NaN /\ end > start
             THEN << [id |-> split(roomId) \o <<ToString(day), formatHHmm(start), formatHHmm(end)>>,
                      room_id |-> roomId,
                      title |-> IF staff # "" THEN "Booked by " \o staff ELSE "Booked",
                      requested_by |-> IF staff # "" THEN staff ELSE "Unknown",
                      start_time |-> [y |-> currentYear, m |-> monthIndex, d |-> day, min |-> start],
                      end_time |-> [y |-> currentYear, m |-> monthIndex, d |-> day, min |-> end],
                      isFixedSchedule |-> FALSE] >>
             ELSE <<>>

rowBookings(row, currentYear, monthIndex) ==
    LET day == parseInt(row.a)
        staff == row.c
        forRoom(roomId) ==
            addBooking(roomId, row.f, row.g, day, staff, currentYear, monthIndex)
            \o addBooking(roomId, row.h, row.i, day, staff, currentYear, monthIndex)
    IN  IF row.a = "" \/ day = NaN THEN <<>>
        ELSE (IF isRoomFlag(row.d, "NHA TRANG") THEN forRoom("nha-trang") ELSE <<>>)
             \o (IF isRoomFlag(row.e, "DA LAT") THEN forRoom("da-lat") ELSE <<>>)

fetchBookings(sh) ==
    LET gid == getCurrentMonthSheetGID(sh)
        rows == sh[gid]                         \* the CSV export of the tab
        fixedSchedules == fetchFixedSchedules(sh)
        sheetMonth == getMonthIndex(IF rows = <<>> THEN "" ELSE rows[1].a)
        fallback == IF sheetMonth = -1 THEN Now.m ELSE sheetMonth
        monthIndex == IF fallback # Now.m THEN Now.m ELSE fallback
        currentYear == Now.y
    IN  IF Len(rows) < FirstScanIndex + 1
        THEN convertFixedSchedulesToBookings(fixedSchedules, Now.y, Now.m)
        ELSE Flatten([k \in 1..(Len(rows) - FirstScanIndex) |->
                        rowBookings(rows[FirstScanIndex + k], currentYear, monthIndex)])
             \o convertFixedSchedulesToBookings(fixedSchedules, currentYear, monthIndex)

(***************************************************************************)
(* Booking form (BookingModal.handleSubmit)                                *)
(***************************************************************************)
NoData == [originalId |-> <<>>]     \* initialData of a form that is not editing

\* a conflict test that also counts touching intervals
isConflictingInclusive(existingBooking, targetRoomId, originalId, selectedDate, start, end) ==
    /\ existingBooking.room_id = targetRoomId
    /\ ~(originalId # <<>> /\ originalId = existingBooking.id)
    /\ existingBooking.start_time.y = selectedDate.y
    /\ existingBooking.start_time.m = selectedDate.m
    /\ existingBooking.start_time.d = selectedDate.d
    /\ getTime(start) <= getTime(existingBooking.end_time)
    /\ getTime(end) >= getTime(existingBooking.start_time)

\* the callback of bookings.find: is existingBooking the conflicting booking
isConflicting(existingBooking, targetRoomId, originalId, selectedDate, start, end) ==
    /\ existingBooking.room_id = targetRoomId
    /\ ~(originalId # <<>> /\ originalId = existingBooking.id)
    /\ existingBooking.start_time.y = selectedDate.y
    /\ existingBooking.start_time.m = selectedDate.m
    /\ existingBooking.start_time.d = selectedDate.d
    /\ getTime(start) < getTime(existingBooking.end_time)
    /\ getTime(end) > getTime(existingBooking.start_time)

conflictingBooking(bks, targetRoomId, originalId, selectedDate, start, end) ==
    SelectSeq(bks, LAMBDA b : isConflicting(b, targetRoomId, originalId, selectedDate, start, end))

\* form = [room_id, title, date, startTime, endTime, initialData]; the value is
\* either the error shown in the modal or the bookingData handed to onConfirm
handleSubmit(form, bks) ==
    LET isEditing == form.initialData # NoData
        today == [y |-> Now.y, m |-> Now.m, d |-> Now.d]
        isUnchangedForDateCheck == isEditing /\ form.date = form.initialData.date
        start == Instant(form.date, minutesOf(form.startTime))
        end == Instant(form.date, minutesOf(form.endTime))
        isTimeUnchanged == /\ isEditing
                           /\ form.date = form.initialData.date
                           /\ form.startTime = form.initialData.start
                           /\ form.endTime = form.initialData.end
        hits == conflictingBooking(bks, form.room_id, form.initialData.originalId,
                                   form.date, start, end)
    IN  IF ~isUnchangedForDateCheck /\ getTime(Instant(form.date, 0)) < getTime(Instant(today, 0))
        THEN [error |-> "cannotBookInPast"]
        ELSE IF form.startTime = "" \/ form.endTime = ""
        THEN [error |-> "pleaseSelectBothTimes"]
        ELSE IF minutesOf(form.startTime) = NaN \/ minutesOf(form.endTime) = NaN
        THEN [error |-> "invalidTimeValues"]
        ELSE IF getTime(end) <= getTime(start)
        THEN [error |-> "endTimeAfterStart"]
        ELSE IF ~isTimeUnchanged /\ getTime(start) < getTime(Now) - GraceMinutes
        THEN [error |-> "cannotBookInPastTime"]
        ELSE IF hits # <<>>
        THEN [error |-> "roomAlreadyBooked",
              start |-> formatHHmm(hits[1].start_time.min),
              end |-> formatHHmm(hits[1].end_time.min)]
        ELSE [error |-> "",
              bookingData |-> [room_id |-> form.room_id, title |-> form.title,
                               requested_by |-> "Current User",
                               start_time |-> start, end_time |-> end]]

(***************************************************************************)
(* Mutator - createBooking                                                 *)
(***************************************************************************)
dayNames == <<"Sunday", "Monday", "Tuesday", "Wednesday", "Thursday", "Friday", "Saturday">>

\* a check that forgets the room of the schedule
conflictingSchedulesAnyRoom(booking, fixedSchedules) ==
    LET start == booking.start_time
        end == booking.end_time
        bookingDayOfWeek == getDay(DateOf(start))
    IN  SelectSeq(fixedSchedules,
          LAMBDA schedule :
            /\ schedule.dayOfWeek = bookingDayOfWeek
            /\ getTime(start) < getTime(Instant(DateOf(start), minutesOf(schedule.end_time)))
            /\ getTime(end) > getTime(Instant(DateOf(start), minutesOf(schedule.start_time))))

\* the fixed schedules that make createBooking throw; the first one is cited
conflictingSchedules(booking, fixedSchedules) ==
    LET start == booking.start_time
        end == booking.end_time
        bookingDayOfWeek == getDay(DateOf(start))
    IN  SelectSeq(fixedSchedules,
          LAMBDA schedule :
            /\ schedule.dayOfWeek = bookingDayOfWeek
            /\ schedule.room_id = booking.room_id
            /\ getTime(start) < getTime(Instant(DateOf(start), minutesOf(schedule.end_time)))
            /\ getTime(end) > getTime(Instant(DateOf(start), minutesOf(schedule.start_time))))

parseTimeToMinutes(timeStr) == IF timeStr # "" /\ IsTimeString(timeStr) THEN TimeTable[timeStr] ELSE NaN

getRowStartTime(row) ==
    IF row.f # "" /\ parseTimeToMinutes(row.f) # NaN THEN parseTimeToMinutes(row.f)
    ELSE IF row.h # "" /\ parseTimeToMinutes(row.h) # NaN THEN parseTimeToMinutes(row.h)
    ELSE NaN

\* comparator of rowsWithSameDate.sort: ascending, null start times last
sortsAfter(a, b) ==
    IF a.startTime = NaN /\ b.startTime = NaN THEN FALSE
    ELSE IF a.startTime = NaN THEN TRUE
    ELSE IF b.startTime = NaN THEN FALSE
    ELSE a.startTime > b.startTime

\* Array.prototype.sort is stable: x goes behind every element it does not precede
RECURSIVE sortRows(_)
sortRows(s) ==
    IF s = <<>> THEN <<>>
    ELSE LET sorted == sortRows(SubSeq(s, 1, Len(s) - 1))
             x == s[Len(s)]
             keep == Cardinality({k \in 1..Len(sorted) : ~sortsAfter(sorted[k], x)})
         IN  SubSeq(sorted, 1, keep) \o <<x>> \o SubSeq(sorted, keep + 1, Len(sorted))

\* rows = the answer to A6:I1000; 0 stands for insertRowIndex === null
insertRowBySameDate(rows, targetDate, newBookingStartTime) ==
    LET idx == SelectSeq([k \in 1..Len(rows) |-> k], LAMBDA k : rows[k].a = targetDate)
        rowsWithSameDate == sortRows([k \in 1..Len(idx) |->
                               [rowNumber |-> FirstDataRow + idx[k] - 1,
                                startTime |-> getRowStartTime(rows[idx[k]])]])
        later == {k \in 1..Len(rowsWithSameDate) :
                    /\ rowsWithSameDate[k].startTime # NaN
                    /\ rowsWithSameDate[k].startTime >= newBookingStartTime}
        insertPosition == IF later = {} THEN Len(rowsWithSameDate)
                          ELSE (CHOOSE k \in later : \A j \in later : k <= j) - 1
    IN  IF rowsWithSameDate = <<>> THEN 0
        ELSE IF insertPosition = 0 THEN rowsWithSameDate[1].rowNumber
        ELSE rowsWithSameDate[insertPosition].rowNumber + 1

\* rows = the answer to A6:A1000: after the last row with a date, else row 6
insertRowAfterLast(rows) ==
    LET dated == {k \in 1..Len(rows) : rows[k].a # ""}
    IN  IF dated = {} THEN FirstDataRow
        ELSE FirstDataRow + (CHOOSE k \in dated : \A j \in dated : j <= k)

\* values in which each time goes to the half of the day it falls in
bookingValuesByHalf(booking) ==
    LET start == booking.start_time
        end == booking.end_time
    IN  [a |-> ToString(start.d),
         b |-> dayNames[getDay(DateOf(start)) + 1],
         c |-> booking.title,
         d |-> IF booking.room_id = "nha-trang" THEN "NHA TRANG" ELSE "",
         e |-> IF booking.room_id = "da-lat" THEN "DA LAT" ELSE "",
         f |-> IF start.min \div 60 < NoonHour THEN formatHmm(start.min) ELSE "",
         g |-> IF end.min \div 60 < NoonHour THEN formatHmm(end.min) ELSE "",
         h |-> IF start.min \div 60 >= NoonHour THEN formatHmm(start.min) ELSE "",
         i |-> IF end.min \div 60 >= NoonHour THEN formatHmm(end.min) ELSE ""]

bookingValues(booking) ==
    LET start == booking.start_time
        end == booking.end_time
        isMorning == start.min \div 60 < NoonHour
    IN  [a |-> ToString(start.d),
         b |-> dayNames[getDay(DateOf(start)) + 1],
         c |-> booking.title,
         d |-> IF booking.room_id = "nha-trang" THEN "NHA TRANG" ELSE "",
         e |-> IF booking.room_id = "da-lat" THEN "DA LAT" ELSE "",
         f |-> IF isMorning THEN formatHmm(start.min) ELSE "",
         g |-> IF isMorning THEN formatHmm(end.min) ELSE "",
         h |-> IF ~isMorning THEN formatHmm(start.min) ELSE "",
         i |-> IF ~isMorning THEN formatHmm(end.min) ELSE ""]

\* createBooking after its conflict check: the tab of the booking's month, the
\* rows read from it, the insert row and the values
createBookingLocate(booking, sh) ==
    LET gid == getMonthSheetGID(DateOf(booking.start_time), sh)
        sheetName == getSheetNameFromGid(gid)
        rows == ValuesGet(sh[TabOfTitle(sheetName)], FirstDataRow, Len(sh[TabOfTitle(sheetName)]))
        byDate == insertRowBySameDate(rows, ToString(booking.start_time.d),
                                      booking.start_time.min)
    IN  IF gid = NotFound
        THEN [status |-> "sheetNotFound"]
        ELSE [status |-> "ok", gid |-> gid, sheetName |-> sheetName,
              insertRowIndex |-> IF byDate # 0 THEN byDate ELSE insertRowAfterLast(rows),
              values |-> bookingValues(booking)]

\* createBooking up to the choice of the row: the conflict check against the
\* fixed schedules first
createBookingPlan(booking, sh) ==
    LET hits == conflictingSchedules(booking, fetchFixedSchedules(sh))
    IN  IF hits # <<>>
        THEN [status |-> "fixedConflict", cited |-> hits[1]]
        ELSE createBookingLocate(booking, sh)

\* the two writes of createBooking
createBookingInsert(plan, sh) ==
    [sh EXCEPT ![plan.gid] = insertDimension(@, plan.insertRowIndex)]
createBookingWrite(plan, sh) ==
    [sh EXCEPT ![TabOfTitle(plan.sheetName)] = valuesUpdate(@, plan.insertRowIndex, plan.values)]

\* createBooking as one call: [status, sheet, ...]; a throw leaves the sheet alone
createBookingRun(plan, sh) ==
    IF plan.status # "ok"
    THEN [status |-> plan.status, sheet |-> sh,
          cited |-> IF plan.status = "fixedConflict" THEN plan.cited ELSE <<>>]
    ELSE [status |-> "ok", rowNumber |-> plan.insertRowIndex, gid |-> plan.gid,
          sheetName |-> plan.sheetName,
          sheet |-> createBookingWrite(plan, createBookingInsert(plan, sh))]

createBooking(booking, sh) == createBookingRun(createBookingPlan(booking, sh), sh)

(***************************************************************************)
(* Mutator - findBookingRow, updateBooking, deleteBooking                  *)
(***************************************************************************)
\* strips seconds and blanks, pads a one-digit hour
normalizeTime(t) == IF IsTimeString(t) THEN formatHHmm(TimeTable[t]) ELSE t

\* the match rule without the test of the day
isCandidateAnyDay(row, roomId, startStr, endStr, targetDay) ==
    LET isTargetRoom == \/ roomId = "nha-trang" /\ isRoomFlag(row.d, "NHA TRANG")
                        \/ roomId = "da-lat" /\ isRoomFlag(row.e, "DA LAT")
        nStartStr == normalizeTime(startStr)
        nEndStr == normalizeTime(endStr)
        nmStart == normalizeTime(row.f)
        nmEnd == normalizeTime(row.g)
        naStart == normalizeTime(row.h)
        naEnd == normalizeTime(row.i)
        matchMorning == nmStart = nStartStr /\ nmEnd = nEndStr
        matchAfternoon == naStart = nStartStr /\ naEnd = nEndStr
        matchMorningStart == nmStart = nStartStr /\ nmStart # ""
        matchAfternoonStart == naStart = nStartStr /\ naStart # ""
    IN  /\ row # BlankRow
        /\ isTargetRoom
        /\ matchMorning \/ matchAfternoon \/ matchMorningStart \/ matchAfternoonStart

\* does the row at 0-based index i of the A:I read match the id and the day
isCandidate(row, roomId, startStr, endStr, targetDay) ==
    LET isTargetRoom == \/ roomId = "nha-trang" /\ isRoomFlag(row.d, "NHA TRANG")
                        \/ roomId = "da-lat" /\ isRoomFlag(row.e, "DA LAT")
        nStartStr == normalizeTime(startStr)
        nEndStr == normalizeTime(endStr)
        nmStart == normalizeTime(row.f)
        nmEnd == normalizeTime(row.g)
        naStart == normalizeTime(row.h)
        naEnd == normalizeTime(row.i)
        matchMorning == nmStart = nStartStr /\ nmEnd = nEndStr
        matchAfternoon == naStart = nStartStr /\ naEnd = nEndStr
        matchMorningStart == nmStart = nStartStr /\ nmStart # ""
        matchAfternoonStart == naStart = nStartStr /\ naStart # ""
        day == IF row.a # "" THEN parseInt(row.a) ELSE 0
    IN  /\ row # BlankRow
        /\ isTargetRoom
        /\ matchMorning \/ matchAfternoon \/ matchMorningStart \/ matchAfternoonStart
        /\ targetDay # NaN /\ day = targetDay

\* targetDate is a date record, or <<>> when the caller passes none.
\* status "error" stands for a throw (bad id, no tab for the month)
findBookingRow(bookingId, targetDate, sh) ==
    LET parts == bookingId
        n == Len(parts)
        endStr == parts[n]
        startStr == parts[n - 1]
        roomId == join(SubSeq(parts, 1, n - 3))
        gid == IF targetDate # <<>> THEN getMonthSheetGID(targetDate, sh)
               ELSE getCurrentMonthSheetGID(sh)
        targetDay == IF targetDate # <<>> THEN targetDate.d ELSE NaN
        named == getSheetNameFromGid(gid)
        sheetName == IF named = "" THEN "DECEMBER" ELSE named
        rows == sh[TabOfTitle(sheetName)]
        candidates == SelectSeq([k \in 1..Len(rows) |-> k - 1],
                        LAMBDA i : /\ i >= FirstScanIndex
                                   /\ isCandidate(rows[i + 1], roomId, startStr, endStr, targetDay))
    IN  IF n < 4 \/ gid = NotFound
        THEN [status |-> "error", gid |-> gid, allMatches |-> <<>>]
        ELSE [status |-> "ok", gid |-> gid,
              allMatches |-> [k \in 1..Len(candidates) |->
                                [realRowIndex |-> candidates[k], gid |-> gid]]]

\* a deletion at the index found before createBooking has put its row in
updateBookingDeleteStale(finderResult, createResult) ==
    LET found == finderResult.status = "ok" /\ Len(finderResult.allMatches) > 0
        targetToDelete == finderResult.allMatches[1]
    IN  IF createResult.status # "ok"
        THEN [createResult EXCEPT !.status = "updateFailed:" \o createResult.status]
        ELSE IF ~found THEN createResult
        ELSE [createResult EXCEPT
                !.sheet = [@ EXCEPT ![targetToDelete.gid] =
                             deleteDimension(@, targetToDelete.realRowIndex)]]

\* updateBooking after its two calls: the row index corrected for the row that
\* createBooking has put in, then deleteDimension
updateBookingDelete(finderResult, createResult) ==
    LET found == finderResult.status = "ok" /\ Len(finderResult.allMatches) > 0
        targetToDelete == finderResult.allMatches[1]
        newRowIndexZeroBased == createResult.rowNumber - 1
        indexToDelete ==
            IF createResult.gid = targetToDelete.gid
               /\ newRowIndexZeroBased <= targetToDelete.realRowIndex
            THEN targetToDelete.realRowIndex + 1
            ELSE targetToDelete.realRowIndex
    IN  IF createResult.status # "ok"
        THEN [createResult EXCEPT !.status = "updateFailed:" \o createResult.status]
        ELSE IF ~found THEN createResult
        ELSE [createResult EXCEPT
                !.sheet = [@ EXCEPT ![targetToDelete.gid] = deleteDimension(@, indexToDelete)]]

updateBooking(originalBookingId, originalDate, newBookingData, sh) ==
    updateBookingDelete(findBookingRow(originalBookingId, originalDate, sh),
                        createBooking(newBookingData, sh))

\* the deleteDimension requests of one batchUpdate, applied in their order
RECURSIVE deleteRows(_, _)
deleteRows(rows, indices) ==
    IF indices = <<>> THEN rows
    ELSE deleteRows(deleteDimension(rows, Head(indices)), Tail(indices))

\* targets.sort((a, b) => b.realRowIndex - a.realRowIndex)
RECURSIVE sortDescending(_)
sortDescending(s) ==
    IF s = <<>> THEN <<>>
    ELSE LET sorted == sortDescending(SubSeq(s, 1, Len(s) - 1))
             x == s[Len(s)]
             keep == Cardinality({k \in 1..Len(sorted) : sorted[k] >= x})
         IN  SubSeq(sorted, 1, keep) \o <<x>> \o SubSeq(sorted, keep + 1, Len(sorted))

\* the delete requests in the order of the matches, lowest row first
deleteBookingRowsInOrder(finderResult, sh) ==
    LET targets == [k \in 1..Len(finderResult.allMatches) |->
                      finderResult.allMatches[k].realRowIndex]
    IN  IF finderResult.status = "error" THEN [status |-> "error", sheet |-> sh]
        ELSE IF targets = <<>> THEN [status |-> "notFound", sheet |-> sh]
        ELSE [status |-> "ok",
              sheet |-> [sh EXCEPT ![finderResult.gid] = deleteRows(@, targets)]]

deleteBookingRows(finderResult, sh) ==
    LET targets == sortDescending([k \in 1..Len(finderResult.allMatches) |->
                                     finderResult.allMatches[k].realRowIndex])
    IN  IF finderResult.status = "error" THEN [status |-> "error", sheet |-> sh]
        ELSE IF targets = <<>> THEN [status |-> "notFound", sheet |-> sh]
        ELSE [status |-> "ok",
              sheet |-> [sh EXCEPT ![finderResult.gid] = deleteRows(@, targets)]]

deleteBooking(bookingId, targetDate, sh) ==
    deleteBookingRows(findBookingRow(bookingId, targetDate, sh), sh)

(***************************************************************************)
(* Mutator - createFixedSchedule, updateFixedSchedule, deleteFixedSchedule *)
(* A schedule is the form data [staff_name, room_id, start_time, end_time].*)
(***************************************************************************)
\* the overlapping one-off booking rows of A5:I100, day by day, row by row,
\* morning pair before afternoon pair; the first one is cited in the error
bookingTableConflicts(schedule, rows) ==
    LET daysInMonth == DaysInMonth(Now.y, Now.m)
        scheduleStart == minutesOf(schedule.start_time)
        scheduleEnd == minutesOf(schedule.end_time)
        slotHit(day, row, startStr, endStr) ==
            IF startStr = "" \/ endStr = "" THEN <<>>
            ELSE IF minutesOf(startStr) = NaN \/ minutesOf(endStr) = NaN THEN <<>>
            ELSE IF scheduleStart < minutesOf(endStr) /\ scheduleEnd > minutesOf(startStr)
            THEN << [day |-> day, staff |-> IF row.c # "" THEN row.c ELSE "Existing booking",
                     start |-> minutesOf(startStr), end |-> minutesOf(endStr)] >>
            ELSE <<>>
        rowHits(day, row) ==
            LET rowDay == parseInt(row.a)
                isNhaTrang == isRoomFlag(row.d, "NHA TRANG")
                isDaLat == isRoomFlag(row.e, "DA LAT")
                bookingRoomId == IF isNhaTrang THEN "nha-trang"
                                 ELSE IF isDaLat THEN "da-lat" ELSE ""
            IN  IF row.a = "" \/ rowDay = NaN \/ rowDay # day THEN <<>>
                ELSE IF bookingRoomId # schedule.room_id THEN <<>>
                ELSE slotHit(day, row, row.f, row.g) \o slotHit(day, row, row.h, row.i)
        dayHits(day) == Flatten([k \in 1..Len(rows) |-> rowHits(day, rows[k])])
    IN  Flatten([day \in 1..daysInMonth |-> dayHits(day)])

\* a check that compares the candidate with the schedules of every room
fixedScheduleConflictsAnyRoom(schedule, existingSchedules, rowNum) ==
    SelectSeq(existingSchedules,
      LAMBDA existingSchedule :
        /\ existingSchedule.row # rowNum
        /\ minutesOf(schedule.start_time) < minutesOf(existingSchedule.end_time)
        /\ minutesOf(schedule.end_time) > minutesOf(existingSchedule.start_time))

\* a check that compares the candidate with the edited row as well
fixedScheduleConflictsNoSkip(schedule, existingSchedules, rowNum) ==
    SelectSeq(existingSchedules,
      LAMBDA existingSchedule :
        /\ existingSchedule.room_id = schedule.room_id
        /\ minutesOf(schedule.start_time) < minutesOf(existingSchedule.end_time)
        /\ minutesOf(schedule.end_time) > minutesOf(existingSchedule.start_time))

\* the overlapping fixed schedules of the same room; rowNum = 0 excludes no row
fixedScheduleConflicts(schedule, existingSchedules, rowNum) ==
    SelectSeq(existingSchedules,
      LAMBDA existingSchedule :
        /\ existingSchedule.room_id = schedule.room_id
        /\ existingSchedule.row # rowNum
        /\ minutesOf(schedule.start_time) < minutesOf(existingSchedule.end_time)
        /\ minutesOf(schedule.end_time) > minutesOf(existingSchedule.start_time))

\* both checks of create/updateFixedSchedule: "" or the kind of conflict error thrown
fixedScheduleCheck(schedule, rowNum, sh) ==
    LET gid == getCurrentMonthSheetGID(sh)
        sheetName == getSheetNameFromGid(gid)
        bookingRows == ValuesGet(sh[TabOfTitle(sheetName)], BookingTableFirstRow,
                                 BookingTableLastRow)
        bookingHits == bookingTableConflicts(schedule, bookingRows)
        fixedHits == fixedScheduleConflicts(schedule, fetchFixedSchedules(sh), rowNum)
    IN  IF bookingHits # <<>> THEN [status |-> "bookingConflict", cited |-> bookingHits[1]]
        ELSE IF fixedHits # <<>> THEN [status |-> "fixedConflict", cited |-> fixedHits[1]]
        ELSE [status |-> "ok", cited |-> <<>>]

isHeaderForCreate(row) ==
    LET colD == UpperTrim(row.d)
    IN  \/ UpperTrim(row.a) = "DATE" /\ UpperTrim(row.b) = "DAY"
        \/ UpperTrim(row.b) = "DAY" /\ row.c = "BOOKING STAFF"
        \/ includes(colD, "MEETING ROOM") /\ includes(colD, "NHA TRANG")

isFixedRowForCreate(row) ==
    LET colD == UpperTrim(row.d)
        colE == UpperTrim(row.e)
    IN  /\ row.c # ""
        /\ (colD # "" /\ includes(colD, "NHA TRANG")) \/ (colE # "" /\ includes(colE, "DA LAT"))
        /\ matchesTime(row.f) \/ matchesTime(row.g) \/ matchesTime(row.h) \/ matchesTime(row.i)
        /\ ~includes(colD, "MEETING ROOM")
        /\ row.c # "BOOKING STAFF"
        /\ UpperTrim(row.a) # "DATE"
        /\ UpperTrim(row.b) # "DAY"

\* the placement without the test against the header row
fixedPlacementNoInsert(fullValues) ==
    LET headers == {k \in 1..Len(fullValues) : isHeaderForCreate(fullValues[k])}
        firstHeader == IF headers = {} THEN 0
                       ELSE CHOOSE k \in headers : \A j \in headers : k <= j
        scanned == IF firstHeader = 0 THEN 1..Len(fullValues) ELSE 1..(firstHeader - 1)
        valid == {k \in scanned : isFixedRowForCreate(fullValues[k])}
        lastFixedScheduleRow == IF valid = {} THEN 0
                                ELSE CHOOSE k \in valid : \A j \in valid : j <= k
    IN  IF lastFixedScheduleRow = 0 THEN [insertRowIndex |-> 2, shouldInsertRow |-> FALSE]
        ELSE [insertRowIndex |-> lastFixedScheduleRow + 1, shouldInsertRow |-> FALSE]

\* fullValues = the answer to A1:I20
fixedPlacement(fullValues) ==
    LET headers == {k \in 1..Len(fullValues) : isHeaderForCreate(fullValues[k])}
        firstHeader == IF headers = {} THEN 0
                       ELSE CHOOSE k \in headers : \A j \in headers : k <= j
        headerRowIndex == IF firstHeader = 0 THEN DefaultHeaderRow ELSE firstHeader
        scanned == IF firstHeader = 0 THEN 1..Len(fullValues) ELSE 1..(firstHeader - 1)
        valid == {k \in scanned : isFixedRowForCreate(fullValues[k])}
        lastFixedScheduleRow == IF valid = {} THEN 0
                                ELSE CHOOSE k \in valid : \A j \in valid : j <= k
    IN  IF lastFixedScheduleRow = 0 THEN [insertRowIndex |-> 2, shouldInsertRow |-> FALSE]
        ELSE IF lastFixedScheduleRow + 1 >= headerRowIndex
        THEN [insertRowIndex |-> headerRowIndex, shouldInsertRow |-> TRUE]
        ELSE [insertRowIndex |-> lastFixedScheduleRow + 1, shouldInsertRow |-> FALSE]

\* the C..I cells written for a schedule: each time goes to its own half of the day
fixedValues(schedule) ==
    LET startIsMorning == minutesOf(schedule.start_time) \div 60 < NoonHour
        endIsMorning == minutesOf(schedule.end_time) \div 60 < NoonHour
    IN  [BlankRow EXCEPT
           !.c = schedule.staff_name,
           !.d = IF schedule.room_id = "nha-trang" THEN "NHA TRANG" ELSE "",
           !.e = IF schedule.room_id = "da-lat" THEN "DA LAT" ELSE "",
           !.f = IF startIsMorning THEN schedule.start_time ELSE "",
           !.g = IF endIsMorning THEN schedule.end_time ELSE "",
           !.h = IF ~startIsMorning THEN schedule.start_time ELSE "",
           !.i = IF ~endIsMorning THEN schedule.end_time ELSE ""]

\* createFixedSchedule after its checks and the choice of the row: the writes
createFixedScheduleWrite(check, place, schedule, gid, sh) ==
    LET inserted == IF place.shouldInsertRow THEN insertDimension(sh[gid], place.insertRowIndex)
                    ELSE sh[gid]
    IN  IF check.status # "ok" THEN [status |-> check.status, cited |-> check.cited, sheet |-> sh]
        ELSE [status |-> "ok", cited |-> <<>>, row |-> place.insertRowIndex,
              sheet |-> [sh EXCEPT ![gid] =
                           updateCellsCI(inserted, place.insertRowIndex, fixedValues(schedule))]]

createFixedSchedule(schedule, sh) ==
    createFixedScheduleWrite(
        fixedScheduleCheck(schedule, 0, sh),
        fixedPlacement(ValuesGet(sh[TabOfTitle(getSheetNameFromGid(getCurrentMonthSheetGID(sh)))],
                                 1, FixedScanLastRow)),
        schedule, getCurrentMonthSheetGID(sh), sh)

\* scheduleId.match(/fixed-(\d+)-(\d+)-(.+)/): the row number, or NaN without a match
scheduleRow(scheduleId) ==
    IF Len(scheduleId) >= 4 /\ scheduleId[1] = "fixed"
       /\ parseInt(scheduleId[2]) # NaN /\ parseInt(scheduleId[3]) # NaN
    THEN parseInt(scheduleId[2])
    ELSE NaN

\* a row cleared before the checks are looked at
updateFixedScheduleWriteClearFirst(bookingCheck, rowNum, schedule, gid, sh) ==
    LET sheetName == getSheetNameFromGid(gid)
        cleared == [sh EXCEPT ![TabOfTitle(sheetName)] = updateCellsCI(@, rowNum, BlankRow)]
    IN  IF rowNum = NaN THEN [status |-> "invalidId", cited |-> <<>>, sheet |-> sh]
        ELSE IF bookingCheck.status # "ok"
        THEN [status |-> bookingCheck.status, cited |-> bookingCheck.cited, sheet |-> cleared]
        ELSE [status |-> "ok", cited |-> <<>>, row |-> rowNum,
              sheet |-> [cleared EXCEPT ![gid] = updateCellsCI(@, rowNum, fixedValues(schedule))]]

\* updateFixedSchedule after its checks: C..I of the row cleared, then written
updateFixedScheduleWrite(bookingCheck, rowNum, schedule, gid, sh) ==
    LET sheetName == getSheetNameFromGid(gid)
        cleared == [sh EXCEPT ![TabOfTitle(sheetName)] = updateCellsCI(@, rowNum, BlankRow)]
    IN  IF bookingCheck.status = "bookingConflict"
        THEN [status |-> "bookingConflict", cited |-> bookingCheck.cited, sheet |-> sh]
        ELSE IF rowNum = NaN THEN [status |-> "invalidId", cited |-> <<>>, sheet |-> sh]
        ELSE IF bookingCheck.status # "ok"
        THEN [status |-> bookingCheck.status, cited |-> bookingCheck.cited, sheet |-> sh]
        ELSE [status |-> "ok", cited |-> <<>>, row |-> rowNum,
              sheet |-> [cleared EXCEPT ![gid] = updateCellsCI(@, rowNum, fixedValues(schedule))]]

updateFixedSchedule(scheduleId, schedule, sh) ==
    updateFixedScheduleWrite(fixedScheduleCheck(schedule, scheduleRow(scheduleId), sh),
                             scheduleRow(scheduleId), schedule, getCurrentMonthSheetGID(sh), sh)

isHeaderForDelete(row) ==
    LET staff == UpperTrim(row.c)
        room == UpperTrim(row.d)
    IN  \/ staff = "BOOKING STAFF"
        \/ includes(room, "MEETING ROOM") /\ includes(room, "NHA TRANG")

isFixedRowForDelete(row) ==
    LET staff == UpperTrim(row.c)
        room == UpperTrim(row.d)
    IN  /\ staff # "" /\ room # ""
        /\ row.f # "" \/ row.g # "" \/ row.h # "" \/ row.i # ""
        /\ ~includes(room, "MEETING ROOM")
        /\ staff # "BOOKING STAFF"

\* no row is copied up before the last one is cleared
shiftUpNone(rows, allRowsData, sourceRow, last) == rows

\* the updateCells requests that copy rows sourceRow..last one row up
RECURSIVE shiftUp(_, _, _, _)
shiftUp(rows, allRowsData, sourceRow, last) ==
    IF sourceRow > last THEN rows
    ELSE shiftUp(updateCellsCI(rows, sourceRow - 1, RowAt(allRowsData, sourceRow)),
                 allRowsData, sourceRow + 1, last)

deleteFixedSchedule(scheduleId, sh) ==
    LET rowNum == scheduleRow(scheduleId)
        gid == getCurrentMonthSheetGID(sh)
        sheetName == getSheetNameFromGid(gid)
        allRowsData == ValuesGet(sh[TabOfTitle(sheetName)], 1, FixedScanLastRow)
        headers == {k \in 1..Len(allRowsData) : isHeaderForDelete(allRowsData[k])}
        scanned == IF headers = {} THEN 1..Len(allRowsData)
                   ELSE 1..((CHOOSE k \in headers : \A j \in headers : k <= j) - 1)
        valid == {k \in scanned : isFixedRowForDelete(allRowsData[k])}
        lastFixedScheduleRow == IF valid = {} THEN rowNum
                                ELSE CHOOSE k \in valid : \A j \in valid : j <= k
    IN  IF rowNum = NaN THEN [status |-> "invalidId", sheet |-> sh]
        ELSE IF rowNum < lastFixedScheduleRow /\ Len(allRowsData) > 0
        THEN [status |-> "ok",
              sheet |-> [sh EXCEPT ![gid] =
                           updateCellsCI(shiftUp(@, allRowsData, rowNum + 1, lastFixedScheduleRow),
                                         lastFixedScheduleRow, BlankRow)]]
        ELSE [status |-> "ok",
              sheet |-> [sh EXCEPT ![gid] = updateCellsCI(@, rowNum, BlankRow)]]

(***************************************************************************)
(* Dashboard (loadData, handleEditBooking, handleBookingConfirm)           *)
(***************************************************************************)
Staff == {"An", "Binh", "Chi"}

\* booking.title.replace('Booked by ', '')
stripBookedBy(title) ==
    IF \E st \in Staff : title = "Booked by " \o st
    THEN CHOOSE st \in Staff : title = "Booked by " \o st
    ELSE title

handleEditBooking(booking) ==
    [originalId |-> booking.id,
     title |-> stripBookedBy(booking.title),
     date |-> DateOf(booking.start_time),
     start |-> formatHHmm(booking.start_time.min),
     end |-> formatHHmm(booking.end_time.min)]

\* loadData: the fresh fetchBookings answer becomes the state `bookings`
loadData(sh) == fetchBookings(sh)

(***************************************************************************)
(* Inputs and initial tabs                                                 *)
(***************************************************************************)
Clients == {"A", "B"}
Writer == "A"

\* `${targetYear}-${String(targetMonth + 1).padStart(2, "0")}`
monthKeyOf(y, m) ==
    ToString(y) \o "-" \o (IF m + 1 < 10 THEN "0" ELSE "") \o ToString(m + 1)
\* the months a lookup is made for: December 2025 .. December 2026
LocatorMonths ==
    {[y |-> 2025, m |-> 11]} \cup {[y |-> 2026, m |-> m] : m \in {0, 11}}
LocatorKeys == {monthKeyOf(mo.y, mo.m) : mo \in LocatorMonths}
\* const gidCache = {currentMonth: null, currentMonthKey: null, futureMonths: {}};
\* "" stands for null and for a key futureMonths does not have
EmptyGidCache ==
    [currentMonth |-> "", currentMonthKey |-> "",
     futureMonths |-> [k \in LocatorKeys |-> ""]]
\* the locator of a page just loaded, the clock at Now, the tabs of SheetsMeta
LocatorAtRest ==
    /\ gidCache = [c \in Clients |-> EmptyGidCache]
    /\ clock = [y |-> Now.y, m |-> Now.m]
    /\ sheets = SheetsMeta

Dec29 == [y |-> 2025, m |-> 11, d |-> 29]
Dec30 == [y |-> 2025, m |-> 11, d |-> 30]
Jan05 == [y |-> 2026, m |-> 0, d |-> 5]
FormTitles == {"An"}

\* start and end of the form: three proper ranges, one with the end before the start
TimePairs == {<<570, 750>>, <<570, 840>>, <<750, 840>>, <<750, 570>>}
FormOf(room, title, date, pair) ==
    [room_id |-> room, title |-> title, date |-> date,
     startTime |-> formatHHmm(pair[1]), endTime |-> formatHHmm(pair[2]),
     initialData |-> NoData]

\* what a user can put into the booking form
CreateForms ==
    {FormOf("nha-trang", title, Dec29, pair) : title \in FormTitles, pair \in TimePairs}
    \cup {FormOf("da-lat", title, Dec29, <<570, 840>>) : title \in FormTitles}
    \cup {FormOf("nha-trang", title, Jan05, <<570, 750>>) : title \in FormTitles}

\* what a user can put into the fixed-schedule form (end after start)
Schedules ==
    {[staff_name |-> "Binh", room_id |-> "nha-trang",
      start_time |-> formatHHmm(pair[1]), end_time |-> formatHHmm(pair[2])] :
        pair \in {p \in TimePairs : p[2] > p[1]}}
    \cup {[staff_name |-> "Binh", room_id |-> "da-lat",
           start_time |-> formatHHmm(570), end_time |-> formatHHmm(840)]}

BookingRow(day, staff, d, e, f, g, h, i) ==
    [a |-> ToString(day), b |-> dayNames[(day % 7) + 1], c |-> staff,
     d |-> d, e |-> e, f |-> f, g |-> g, h |-> h, i |-> i]
FixedRow(staff, d, e, f, g, h, i) ==
    [BlankRow EXCEPT !.c = staff, !.d = d, !.e = e, !.f = f, !.g = g, !.h = h, !.i = i]

EmptyTab(label) == <<LabelRow(label), BlankRow, BlankRow, BlankRow, HeaderRow>>

\* the December tab at start: empty; one fixed schedule and one booking; rows
\* typed by hand (both room flags, a row without times); two fixed schedules
\* and a booking as the application writes them
DecemberTabs ==
    { EmptyTab("DECEMBER"),
      << LabelRow("DECEMBER"),
         FixedRow("Binh", "NHA TRANG", "", "09:30", "12:30", "", ""),
         BlankRow, BlankRow, HeaderRow,
         BookingRow(30, "Chi", "", "DA LAT", "", "", "12:30", "14:00") >>,
      << LabelRow("DECEMBER"), BlankRow, BlankRow, BlankRow, HeaderRow,
         BookingRow(30, "Chi", "TRUE", "Da Lat", "9:30", "12:30", "", ""),
         BookingRow(30, "Chi", "NHA TRANG", "", "", "", "", "") >>,
      << LabelRow("DECEMBER"),
         FixedRow("Binh", "NHA TRANG", "", "", "", "12:30", "14:00"),
         FixedRow("Binh", "", "DA LAT", "09:30", "", "", "14:00"),
         BlankRow, HeaderRow,
         BookingRow(29, "An", "NHA TRANG", "", "9:30", "12:30", "", "") >> }

DataRowCount(rows) == Cardinality({k \in 1..Len(rows) : parseInt(rows[k].a) # NaN})
FixedRowCount(rows) == Cardinality({k \in 1..Len(rows) : rows[k].a = "" /\ rows[k].c # ""})
WithinBounds(sh) ==
    \A gid \in DOMAIN sh :
        /\ DataRowCount(sh[gid]) <= MaxRows
        /\ FixedRowCount(sh[gid]) <= MaxFixed
        /\ \A k \in 1..Len(sh[gid]) : isBookingHeader(sh[gid][k]) => k <= MaxHeaderRow

Idle == [c \in Clients |-> "idle"]
NoRequest == [c \in Clients |-> <<>>]
NoResult == [op |-> "none", status |-> "none", cited |-> <<>>]

Init ==
    /\ \E dec \in DecemberTabs :
         sheet = [gid \in Gids |-> IF gid = "0" THEN dec ELSE EmptyTab("JANUARY 2026")]
    /\ bookings = [c \in Clients |-> loadData(sheet)]
    /\ result = [c \in Clients |-> NoResult]
    /\ pc = Idle
    /\ req = NoRequest
    /\ cache = [c \in Clients |-> <<bookings[c]>>]
    /\ LocatorAtRest

(***************************************************************************)
(* Single-writer steps: one whole handler per step                         *)
(***************************************************************************)
\* handleSubmit, then handleBookingConfirm: createBooking or updateBooking,
\* then loadData on success and on failure alike
ConfirmCall(c, form, submitted, call) ==
    IF submitted.error # ""
    THEN /\ result' = [result EXCEPT ![c] =
                         [op |-> "submit", status |-> submitted.error, cited |-> <<>>]]
         /\ UNCHANGED <<sheet, bookings, cache, gidCache, clock, sheets>>
    ELSE /\ WithinBounds(call.sheet)
         /\ sheet' = call.sheet
         /\ bookings' = [bookings EXCEPT ![c] = loadData(call.sheet)]
         /\ UNCHANGED <<gidCache, clock, sheets>>
         /\ cache' = [cache EXCEPT ![c] = <<bookings'[c]>>]
         /\ result' = [result EXCEPT ![c] =
                         [op |-> IF form.initialData # NoData THEN "updateBooking"
                                 ELSE "createBooking",
                          status |-> call.status,
                          cited |-> IF call.status # "ok" THEN call.cited
                                    ELSE IF form.initialData # NoData
                                    THEN form.initialData.originalId
                                    ELSE <<>>]]

ConfirmSubmitted(c, form, submitted) ==
    ConfirmCall(c, form, submitted,
                IF form.initialData # NoData
                THEN updateBooking(form.initialData.originalId, form.initialData.date,
                                   submitted.bookingData, sheet)
                ELSE createBooking(submitted.bookingData, sheet))

Confirm(c, form) == ConfirmSubmitted(c, form, handleSubmit(form, bookings[c]))

SubmitCreate(c) ==
    /\ pc[c] = "idle"
    /\ \E form \in CreateForms : Confirm(c, form)
    /\ UNCHANGED <<pc, req>>

SubmitEdit(c) ==
    /\ pc[c] = "idle"
    /\ \E k \in 1..Len(bookings[c]) : \E form \in CreateForms :
         /\ ~bookings[c][k].isFixedSchedule
         /\ Confirm(c, [form EXCEPT !.initialData = handleEditBooking(bookings[c][k]),
                                    !.title = stripBookedBy(bookings[c][k].title)])
    /\ UNCHANGED <<pc, req>>

\* BookingDetailsModal.handleConfirmDelete: deleteBooking, then the refresh
DeleteBookingCall(c, call) ==
    /\ sheet' = call.sheet
    /\ bookings' = [bookings EXCEPT ![c] =
                      IF call.status = "ok" THEN loadData(call.sheet) ELSE @]
    /\ UNCHANGED <<gidCache, clock, sheets>>
    /\ cache' = [cache EXCEPT ![c] = <<bookings'[c]>>]
    /\ result' = [result EXCEPT ![c] =
                    [op |-> "deleteBooking", status |-> call.status, cited |-> <<>>]]

DeleteBooking(c) ==
    /\ pc[c] = "idle"
    /\ \E k \in 1..Len(bookings[c]) :
         /\ ~bookings[c][k].isFixedSchedule
         /\ DeleteBookingCall(c, deleteBooking(bookings[c][k].id,
                                               DateOf(bookings[c][k].start_time), sheet))
    /\ UNCHANGED <<pc, req>>

\* the fixed schedules page after a call: the result shown, the list reloaded
FixedCall(c, op, call) ==
    /\ WithinBounds(call.sheet)
    /\ sheet' = call.sheet
    /\ bookings' = [bookings EXCEPT ![c] = loadData(call.sheet)]
    /\ UNCHANGED <<gidCache, clock, sheets>>
    /\ cache' = [cache EXCEPT ![c] = <<bookings'[c]>>]
    /\ result' = [result EXCEPT ![c] =
                    [op |-> op, status |-> call.status,
                     cited |-> IF op = "deleteFixedSchedule" THEN <<>> ELSE call.cited]]

\* FixedScheduleModal.handleSubmit without a schedule being edited
CreateFixed(c) ==
    /\ pc[c] = "idle"
    /\ \E schedule \in Schedules :
         FixedCall(c, "createFixedSchedule", createFixedSchedule(schedule, sheet))
    /\ UNCHANGED <<pc, req>>

\* the rows the page lists with their edit and delete buttons (rowSchedules[0])
ListedIds(listed) == {listed[k].id : k \in {j \in 1..Len(listed) : listed[j].dayOfWeek = 0}}

\* FixedScheduleModal.handleSubmit with editingSchedule, one of the listed schedules
UpdateFixed(c) ==
    /\ pc[c] = "idle"
    /\ \E schedule \in Schedules : \E id \in ListedIds(fetchFixedSchedules(sheet)) :
         FixedCall(c, "updateFixedSchedule", updateFixedSchedule(id, schedule, sheet))
    /\ UNCHANGED <<pc, req>>

DeleteFixed(c) ==
    /\ pc[c] = "idle"
    /\ \E id \in ListedIds(fetchFixedSchedules(sheet)) :
         FixedCall(c, "deleteFixedSchedule", deleteFixedSchedule(id, sheet))
    /\ UNCHANGED <<pc, req>>

\* the Dashboard: the booking form and the booking details
Next ==
    \/ SubmitCreate(Writer)
    \/ SubmitEdit(Writer)
    \/ DeleteBooking(Writer)

Spec == Init /\ [][Next]_vars

\* the fixed schedules page
NextFixed ==
    \/ CreateFixed(Writer)
    \/ UpdateFixed(Writer)
    \/ DeleteFixed(Writer)

SpecFixed == Init /\ [][NextFixed]_vars

(***************************************************************************)
(* The conflict check of the booking form on its own: every short list of  *)
(* existing bookings, every candidate                                      *)
(***************************************************************************)
MaxExisting == 2    \* bookings in the list handed to the form

Jan29 == [y |-> 2026, m |-> 0, d |-> 29]
ProperPairs == {pair \in TimePairs : pair[2] > pair[1]}

\* the bookings fetchBookings can return for one room flag and one time pair
ExistingBookings ==
    {addBooking(room, formatHmm(pair[1]), formatHmm(pair[2]), day, "Chi", Now.y, Now.m)[1] :
        room \in RoomIds, day \in {29, 30}, pair \in ProperPairs}

BookingLists ==
    UNION {[1..n -> ExistingBookings] : n \in 0..MaxExisting}

Candidates ==
    [room_id : RoomIds, date : {Dec29, Dec30, Jan29}, pair : ProperPairs]

InitConflict ==
    /\ sheet = [gid \in Gids |-> EmptyTab(IF gid = "0" THEN "DECEMBER" ELSE "JANUARY 2026")]
    /\ \E list \in BookingLists : bookings = [c \in Clients |-> list]
    /\ result = [c \in Clients |-> NoResult]
    /\ pc = Idle
    /\ req = NoRequest
    /\ cache = [c \in Clients |-> <<bookings[c]>>]
    /\ LocatorAtRest

\* the form runs its check for a candidate, editing one of the listed bookings or none
CheckConflict(c) ==
    /\ \E cand \in Candidates :
       \E originalId \in {<<>>} \cup {bookings[c][k].id : k \in 1..Len(bookings[c])} :
         LET hits == conflictingBooking(bookings[c], cand.room_id, originalId, cand.date,
                                        Instant(cand.date, cand.pair[1]),
                                        Instant(cand.date, cand.pair[2]))
         IN  result' = [result EXCEPT ![c] =
                          [op |-> "conflictCheck",
                           status |-> IF hits # <<>> THEN "conflict" ELSE "free",
                           cited |-> [cand |-> cand, originalId |-> originalId]]]
    /\ UNCHANGED <<sheet, bookings, cache, gidCache, clock, sheets, pc, req>>

NextConflict == CheckConflict(Writer)

SpecConflict == InitConflict /\ [][NextConflict]_vars

\* [s, e) and [s2, e2) overlap: s < e2 and s2 < e
Overlap(s, e, s2, e2) == s < e2 /\ s2 < e

\* C3: the conflict check reports a conflict exactly when some existing booking
\* (other than the one being edited) of the same room and the same calendar date
\* has s < e2 and s2 < e; touching intervals are no conflict.
C3_ConflictIffOverlap ==
    LET r == result[Writer]
        cand == r.cited.cand
    IN  r.op = "conflictCheck" =>
          (r.status = "conflict" <=>
             \E k \in 1..Len(bookings[Writer]) :
               LET b == bookings[Writer][k]
               IN  /\ b.id # r.cited.originalId
                   /\ b.room_id = cand.room_id
                   /\ DateOf(b.start_time) = cand.date
                   /\ Overlap(cand.pair[1], cand.pair[2], b.start_time.min, b.end_time.min))

\* a candidate that touches an existing booking of its room and date was found free,
\* and the list also holds a booking of the same time in another room
C3_Witness_TouchingIsFree ==
    LET r == result[Writer]
    IN  /\ r.op = "conflictCheck" /\ r.status = "free" /\ r.cited.originalId = <<>>
        /\ \E k \in 1..Len(bookings[Writer]) :
             LET b == bookings[Writer][k]
             IN  /\ b.room_id = r.cited.cand.room_id
                 /\ DateOf(b.start_time) = r.cited.cand.date
                 /\ b.end_time.min = r.cited.cand.pair[1]
        /\ \E k \in 1..Len(bookings[Writer]) :
             LET b == bookings[Writer][k]
             IN  /\ b.room_id # r.cited.cand.room_id
                 /\ DateOf(b.start_time) = r.cited.cand.date
                 /\ b.start_time.min = r.cited.cand.pair[1]

(***************************************************************************)
(* Properties of the single-writer specification                           *)
(***************************************************************************)
\* the month a tab stands for
TabMonth(gid) == IF gid = "0" THEN [y |-> 2025, m |-> 11] ELSE [y |-> 2026, m |-> 0]

\* the one-off bookings the rows of a tab hold, read as fetchBookings reads rows
TabBookings(rows, y, m) ==
    Flatten([k \in 1..(IF Len(rows) > FirstScanIndex THEN Len(rows) - FirstScanIndex ELSE 0) |->
               rowBookings(rows[FirstScanIndex + k], y, m)])

NoOverlapIn(bks) ==
    \A i, j \in 1..Len(bks) :
        (i < j /\ bks[i].room_id = bks[j].room_id
               /\ DateOf(bks[i].start_time) = DateOf(bks[j].start_time))
        => ~Overlap(bks[i].start_time.min, bks[i].end_time.min,
                    bks[j].start_time.min, bks[j].end_time.min)

\* C1: after any sequence of bookings created, edited and deleted by one writer
\* through the booking form, no two one-off booking rows of the same room and the
\* same date overlap, in any tab.
C1_NoDoubleBooking ==
    \A gid \in Gids : NoOverlapIn(TabBookings(sheet[gid], TabMonth(gid).y, TabMonth(gid).m))

\* the same statement for the tab of the current month only
C1_NoDoubleBookingCurrentMonth ==
    NoOverlapIn(TabBookings(sheet["0"], Now.y, Now.m))

(***************************************************************************)
(* Two clients: every network request of createBooking is a step of its    *)
(* own, and each client checks conflicts against its own `bookings`        *)
(***************************************************************************)
RaceForms == {form \in CreateForms : form.room_id = "nha-trang" /\ form.date = Dec29}

InFlight == Cardinality({c \in Clients : pc[c] \in {"check", "read", "insert", "write"}})

InitRace == Init

\* handleSubmit: the form's checks against the client's list, then onConfirm
RaceSubmit(c) ==
    /\ pc[c] = "idle"
    /\ DataRowCount(sheet["0"]) + InFlight < MaxRows
    /\ \E form \in RaceForms :
         LET submitted == handleSubmit(form, bookings[c])
         IN  IF submitted.error # ""
             THEN /\ result' = [result EXCEPT ![c] =
                                  [op |-> "submit", status |-> submitted.error, cited |-> <<>>]]
                  /\ UNCHANGED <<pc, req>>
             ELSE /\ pc' = [pc EXCEPT ![c] = "check"]
                  /\ req' = [req EXCEPT ![c] = [booking |-> submitted.bookingData]]
                  /\ UNCHANGED result
    /\ UNCHANGED <<sheet, bookings, cache, gidCache, clock, sheets>>

\* createBooking: fetchFixedSchedules and the conflict check
RaceCheck(c) ==
    /\ pc[c] = "check"
    /\ LET hits == conflictingSchedules(req[c].booking, fetchFixedSchedules(sheet))
       IN  IF hits # <<>>
           THEN /\ result' = [result EXCEPT ![c] =
                                [op |-> "createBooking", status |-> "fixedConflict",
                                 cited |-> hits[1]]]
                /\ pc' = [pc EXCEPT ![c] = "reload"]
           ELSE /\ pc' = [pc EXCEPT ![c] = "read"]
                /\ UNCHANGED result
    /\ UNCHANGED <<sheet, bookings, cache, gidCache, clock, sheets, req>>

\* createBooking: the tab of the month and the read of A6:I1000
RaceRead(c) ==
    /\ pc[c] = "read"
    /\ LET plan == createBookingLocate(req[c].booking, sheet)
       IN  IF plan.status # "ok"
           THEN /\ result' = [result EXCEPT ![c] =
                                [op |-> "createBooking", status |-> plan.status, cited |-> <<>>]]
                /\ pc' = [pc EXCEPT ![c] = "reload"]
                /\ UNCHANGED req
           ELSE /\ req' = [req EXCEPT ![c] = [booking |-> req[c].booking, plan |-> plan]]
                /\ pc' = [pc EXCEPT ![c] = "insert"]
                /\ UNCHANGED result
    /\ UNCHANGED <<sheet, bookings, cache, gidCache, clock, sheets>>

\* createBooking: batchUpdate insertDimension
RaceInsert(c) ==
    /\ pc[c] = "insert"
    /\ sheet' = createBookingInsert(req[c].plan, sheet)
    /\ pc' = [pc EXCEPT ![c] = "write"]
    /\ UNCHANGED <<bookings, cache, gidCache, clock, sheets, result, req>>

\* createBooking: values PUT, then the call returns
RaceWrite(c) ==
    /\ pc[c] = "write"
    /\ sheet' = createBookingWrite(req[c].plan, sheet)
    /\ result' = [result EXCEPT ![c] =
                    [op |-> "createBooking", status |-> "ok", cited |-> <<>>]]
    /\ pc' = [pc EXCEPT ![c] = "reload"]
    /\ UNCHANGED <<bookings, cache, gidCache, clock, sheets, req>>

\* handleBookingConfirm: loadData after the call
RaceReload(c) ==
    /\ pc[c] = "reload"
    /\ bookings' = [bookings EXCEPT ![c] = loadData(sheet)]
    /\ UNCHANGED <<gidCache, clock, sheets>>
    /\ cache' = [cache EXCEPT ![c] = <<bookings'[c]>>]
    /\ pc' = [pc EXCEPT ![c] = "idle"]
    /\ UNCHANGED <<sheet, result, req>>

\* the 30 second poll of the Dashboard
RacePoll(c) ==
    /\ pc[c] = "idle"
    /\ bookings[c] # loadData(sheet)
    /\ bookings' = [bookings EXCEPT ![c] = loadData(sheet)]
    /\ UNCHANGED <<gidCache, clock, sheets>>
    /\ cache' = [cache EXCEPT ![c] = <<bookings'[c]>>]
    /\ UNCHANGED <<sheet, result, pc, req>>

NextRace ==
    \E c \in Clients :
        \/ RaceSubmit(c)
        \/ RaceCheck(c)
        \/ RaceRead(c)
        \/ RaceInsert(c)
        \/ RaceWrite(c)
        \/ RaceReload(c)
        \/ RacePoll(c)

SpecRace == InitRace /\ [][NextRace]_vars

\* both clients have finished a createBooking with success
BothCreated ==
    \A c \in Clients :
        /\ pc[c] \in {"reload", "idle"}
        /\ result[c].op = "createBooking" /\ result[c].status = "ok"
        /\ req[c] # <<>>

RowsHolding(rows, values) == {k \in 1..Len(rows) : rows[k] = values}

\* C2: when two clients interleave createBooking for overlapping ranges of one
\* room and date, at most one of the two bookings ends up in the tab.
C2_AtMostOneLands ==
    LET a == req["A"].booking
        b == req["B"].booking
    IN  (/\ BothCreated
         /\ a.room_id = b.room_id
         /\ DateOf(a.start_time) = DateOf(b.start_time)
         /\ Overlap(a.start_time.min, a.end_time.min, b.start_time.min, b.end_time.min))
        => Cardinality(RowsHolding(sheet["0"], bookingValues(a))
                       \cup RowsHolding(sheet["0"], bookingValues(b))) <= 1

(***************************************************************************)
(* createBooking against the fixed schedules                               *)
(***************************************************************************)
\* the bookings the form hands to createBooking
BookingInputs ==
    {handleSubmit(form, <<>>).bookingData :
        form \in {f \in CreateForms : handleSubmit(f, <<>>).error = ""}}

\* the rows of the header region that hold a fixed schedule: a staff name, a
\* room flag and two times, above the DATE/DAY header
FixedScheduleRows(tab) ==
    {r \in 2..Len(tab) :
        /\ \A j \in 2..r : ~isBookingHeader(tab[j])
        /\ tab[r].c # ""
        /\ fixedRowRoom(tab[r]) # ""
        /\ fixedRowTimes(tab[r])[1] # ""
        /\ fixedRowTimes(tab[r])[2] # ""}

\* the fixed schedule of row r overlaps the time of day [s, e) in room R
FixedOverlaps(tab, r, R, s, e) ==
    /\ fixedRowRoom(tab[r]) = R
    /\ Overlap(s, e, TimeTable[fixedRowTimes(tab[r])[1]], TimeTable[fixedRowTimes(tab[r])[2]])

\* C4: createBooking for room R fails with a conflict error exactly when some
\* fixed schedule of room R overlaps the booking's time of day, whatever the
\* booking's date, and the error cites that schedule's staff name, start and end.
C4_FixedConflictIffOverlap ==
    \A booking \in BookingInputs :
        LET call == createBooking(booking, sheet)
            tab == sheet[getCurrentMonthSheetGID(sheet)]
            hits == {r \in FixedScheduleRows(tab) :
                        FixedOverlaps(tab, r, booking.room_id,
                                      booking.start_time.min, booking.end_time.min)}
        IN  /\ call.status = "fixedConflict" <=> hits # {}
            /\ call.status = "fixedConflict" =>
                 \E r \in hits :
                    /\ call.cited.staff_name = tab[r].c
                    /\ call.cited.start_time = formatHHmm(TimeTable[fixedRowTimes(tab[r])[1]])
                    /\ call.cited.end_time = formatHHmm(TimeTable[fixedRowTimes(tab[r])[2]])

\* a createBooking through the form was refused, citing a fixed schedule, while
\* a booking of the other room at that time of day is accepted
C4_Witness_FixedConflict ==
    /\ result[Writer].op = "createBooking"
    /\ result[Writer].status = "fixedConflict"
    /\ result[Writer].cited.staff_name = "Binh"
    /\ \E booking \in BookingInputs : createBooking(booking, sheet).status = "ok"

(***************************************************************************)
(* Fixed schedules against fixed schedules                                 *)
(***************************************************************************)
CurrentTab == sheet[getCurrentMonthSheetGID(sheet)]

\* the existing fixed schedules that overlap the candidate, the row `except` aside
FixedHits(tab, schedule, except) ==
    {r \in FixedScheduleRows(tab) \ {except} :
        FixedOverlaps(tab, r, schedule.room_id,
                      TimeTable[schedule.start_time], TimeTable[schedule.end_time])}

\* C5: createFixedSchedule(B) fails on an existing fixed schedule A exactly when A
\* and B are of the same room and their times of day overlap; a schedule of
\* another room is never the cause.  (The check against the booking table comes
\* first and is the subject of C7: where it throws, the call fails on it.)
C5_CreateFixedConflictIffOverlap ==
    \A schedule \in Schedules :
        LET call == createFixedSchedule(schedule, sheet)
            hits == FixedHits(CurrentTab, schedule, 0)
        IN  /\ hits # {} => call.status \in {"fixedConflict", "bookingConflict"}
            /\ call.status = "fixedConflict" => hits # {}
            /\ call.status = "fixedConflict" =>
                 /\ call.cited.room_id = schedule.room_id
                 /\ call.cited.row \in hits
            /\ call.status # "ok" => call.sheet = sheet

\* a candidate was refused on a fixed schedule of its room while a candidate of
\* the other room with an overlapping time of day is accepted
C5_Witness_SameRoomOnly ==
    /\ result[Writer].op = "createFixedSchedule"
    /\ result[Writer].status = "fixedConflict"
    /\ \E schedule \in Schedules :
         /\ schedule.room_id # result[Writer].cited.room_id
         /\ Overlap(TimeTable[schedule.start_time], TimeTable[schedule.end_time],
                    TimeTable[result[Writer].cited.start_time],
                    TimeTable[result[Writer].cited.end_time])
         /\ createFixedSchedule(schedule, sheet).status = "ok"

NoFixedOverlapIn(tab) ==
    \A r1, r2 \in FixedScheduleRows(tab) :
        (r1 < r2 /\ fixedRowRoom(tab[r1]) = fixedRowRoom(tab[r2]))
        => ~Overlap(TimeTable[fixedRowTimes(tab[r1])[1]], TimeTable[fixedRowTimes(tab[r1])[2]],
                    TimeTable[fixedRowTimes(tab[r2])[1]], TimeTable[fixedRowTimes(tab[r2])[2]])

\* C6: after any sequence of createFixedSchedule, updateFixedSchedule and
\* deleteFixedSchedule no two fixed schedules of one room overlap in time of
\* day, and updateFixedSchedule fails on a fixed schedule exactly when a row
\* other than the edited one overlaps the new values.
C6_FixedSchedulesNeverOverlap ==
    /\ \A gid \in Gids : NoFixedOverlapIn(sheet[gid])
    /\ \A schedule \in Schedules : \A r \in FixedScheduleRows(CurrentTab) :
         LET id == <<"fixed", ToString(r), "0">> \o split(fixedRowRoom(CurrentTab[r]))
             call == updateFixedSchedule(id, schedule, sheet)
             hits == FixedHits(CurrentTab, schedule, r)
         IN  /\ hits # {} => call.status \in {"fixedConflict", "bookingConflict"}
             /\ call.status = "fixedConflict" => (hits # {} /\ call.cited.row \in hits)

\* two fixed schedules of one room stand side by side after an update that was
\* accepted although the new values overlap the old values of the edited row
C6_Witness_TwoSchedulesAfterUpdate ==
    /\ result[Writer].op = "updateFixedSchedule"
    /\ result[Writer].status = "ok"
    /\ \E r1, r2 \in FixedScheduleRows(CurrentTab) :
         /\ r1 < r2
         /\ fixedRowRoom(CurrentTab[r1]) = fixedRowRoom(CurrentTab[r2])

(***************************************************************************)
(* Fixed schedules against the booking table                               *)
(***************************************************************************)
\* a pair of cells holds two times that overlap [s, e)
SlotOverlaps(startStr, endStr, s, e) ==
    /\ IsTimeString(startStr) /\ IsTimeString(endStr)
    /\ Overlap(s, e, TimeTable[startStr], TimeTable[endStr])

\* the booking rows of room R, below the header, on a day of the month, with a
\* morning or an afternoon pair overlapping [s, e)
BookingRowHits(tab, R, s, e) ==
    {r \in 1..Len(tab) :
        /\ \E j \in 1..(r - 1) : isBookingHeader(tab[j])
        /\ parseInt(tab[r].a) \in 1..DaysInMonth(Now.y, Now.m)
        /\ \/ R = "nha-trang" /\ isRoomFlag(tab[r].d, "NHA TRANG")
           \/ R = "da-lat" /\ isRoomFlag(tab[r].e, "DA LAT")
        /\ \/ SlotOverlaps(tab[r].f, tab[r].g, s, e)
           \/ SlotOverlaps(tab[r].h, tab[r].i, s, e)}

\* the outcome of a call agrees with the booking rows that overlap the schedule
AgreesWithBookingRows(call, hits) ==
    /\ call.status = "bookingConflict" <=> hits # {}
    /\ call.status = "bookingConflict" =>
         \E r \in hits :
            /\ call.cited.day = parseInt(CurrentTab[r].a)
            /\ call.cited.staff = CurrentTab[r].c

\* C7: createFixedSchedule and updateFixedSchedule for room R are rejected with
\* the booking conflict error exactly when a one-off booking row of room R in the
\* current month's tab, on any day of the month, has a morning or afternoon pair
\* overlapping the schedule's time of day; the error carries that row's date and
\* staff name.
C7_BookingConflictIffOverlap ==
    \A schedule \in Schedules :
        LET hits == BookingRowHits(CurrentTab, schedule.room_id,
                                   TimeTable[schedule.start_time], TimeTable[schedule.end_time])
        IN  /\ AgreesWithBookingRows(createFixedSchedule(schedule, sheet), hits)
            /\ \A r \in FixedScheduleRows(CurrentTab) :
                 AgreesWithBookingRows(
                    updateFixedSchedule(<<"fixed", ToString(r), "0">>
                                           \o split(fixedRowRoom(CurrentTab[r])),
                                        schedule, sheet),
                    hits)

(***************************************************************************)
(* Round trip createBooking - fetchBookings                                *)
(***************************************************************************)
\* the bookings of the form that fall into the current month
CurrentMonthInputs ==
    {booking \in BookingInputs :
        booking.start_time.y = Now.y /\ booking.start_time.m = Now.m}

\* the list holds a one-off booking with this room, start, end and title
Fetched(bks, booking, title) ==
    \E k \in 1..Len(bks) :
        /\ ~bks[k].isFixedSchedule
        /\ bks[k].room_id = booking.room_id
        /\ bks[k].start_time = booking.start_time
        /\ bks[k].end_time = booking.end_time
        /\ bks[k].title = title

\* C8 as stated: a booking created in the current month's tab and then fetched
\* comes back with the same room, start, end and title.
C8_RoundTripSameTitle ==
    \A booking \in CurrentMonthInputs :
        createBooking(booking, sheet).status = "ok"
        => Fetched(fetchBookings(createBooking(booking, sheet).sheet), booking, booking.title)

\* C8 amended: a booking created in the current month's tab and then fetched
\* comes back with the same room and the same start and end instants; its title
\* is "Booked by " followed by the title passed to createBooking, which is also
\* its requested_by.
C8_RoundTripBookedBy ==
    \A booking \in CurrentMonthInputs :
        createBooking(booking, sheet).status = "ok"
        => /\ Fetched(fetchBookings(createBooking(booking, sheet).sheet), booking,
                      "Booked by " \o booking.title)
           /\ \A k \in 1..Len(fetchBookings(createBooking(booking, sheet).sheet)) :
                LET b == fetchBookings(createBooking(booking, sheet).sheet)[k]
                IN  (~b.isFixedSchedule /\ b.title = "Booked by " \o booking.title)
                    => b.requested_by = booking.title

\* the form has created a booking from the morning into the afternoon and the
\* reloaded list shows it
C8_Witness_CreatedAndFetched ==
    /\ result[Writer].op = "createBooking"
    /\ result[Writer].status = "ok"
    /\ \E booking \in CurrentMonthInputs :
         /\ booking.start_time.min < NoonHour * 60
         /\ booking.end_time.min > NoonHour * 60
         /\ Fetched(bookings[Writer], booking, "Booked by " \o booking.title)
         /\ \E r \in 1..Len(CurrentTab) : CurrentTab[r] = bookingValues(booking)

(***************************************************************************)
(* The order of the rows of one date under createBooking                   *)
(***************************************************************************)
MaxOrderRows == 4

\* start times 09:00, 10:30 and 14:00 on 29 December, half an hour each
OrderForms ==
    {FormOf("nha-trang", "An", Dec29, <<start, start + 30>>) : start \in {540, 630, 840}}
    \cup {FormOf("da-lat", "An", Dec29, <<630, 660>>)}

\* tabs whose rows of the 29th are in order: none; one; one with a time and,
\* behind it, one typed by hand without times
OrderTabs ==
    { EmptyTab("DECEMBER"),
      << LabelRow("DECEMBER"), BlankRow, BlankRow, BlankRow, HeaderRow,
         BookingRow(29, "Chi", "NHA TRANG", "", "9:30", "10:00", "", "") >>,
      << LabelRow("DECEMBER"), BlankRow, BlankRow, BlankRow, HeaderRow,
         BookingRow(29, "Chi", "NHA TRANG", "", "9:30", "10:00", "", ""),
         BookingRow(29, "Chi", "", "DA LAT", "", "", "", "") >> }

InitOrder ==
    /\ \E dec \in OrderTabs :
         sheet = [gid \in Gids |-> IF gid = "0" THEN dec ELSE EmptyTab("JANUARY 2026")]
    /\ bookings = [c \in Clients |-> loadData(sheet)]
    /\ result = [c \in Clients |-> NoResult]
    /\ pc = Idle
    /\ req = NoRequest
    /\ cache = [c \in Clients |-> <<bookings[c]>>]
    /\ LocatorAtRest

CreateInOrderCall(c, call) ==
    /\ DataRowCount(call.sheet["0"]) <= MaxOrderRows
    /\ sheet' = call.sheet
    /\ bookings' = [bookings EXCEPT ![c] = loadData(call.sheet)]
    /\ UNCHANGED <<gidCache, clock, sheets>>
    /\ cache' = [cache EXCEPT ![c] = <<bookings'[c]>>]
    /\ result' = [result EXCEPT ![c] =
                    [op |-> "createBooking", status |-> call.status, cited |-> <<>>]]

\* one createBooking call for the 29th
CreateInOrder(c) ==
    /\ pc[c] = "idle"
    /\ \E form \in OrderForms :
         CreateInOrderCall(c, createBooking(handleSubmit(form, <<>>).bookingData, sheet))
    /\ UNCHANGED <<pc, req>>

NextOrder == CreateInOrder(Writer)

SpecOrder == InitOrder /\ [][NextOrder]_vars

\* the rows of a date that have a start time, in the order of the tab
TimedRowsOf(tab, date) ==
    SelectSeq([r \in 1..Len(tab) |-> r],
              LAMBDA r : /\ \E j \in 1..(r - 1) : isBookingHeader(tab[j])
                         /\ tab[r].a = date
                         /\ getRowStartTime(tab[r]) # NaN)

\* C9: after any sequence of createBooking calls for date D, the rows of D appear
\* in the tab in ascending order of their parsed start time.
C9_RowsOfDateAscending ==
    LET rs == TimedRowsOf(CurrentTab, "29")
    IN  \A i, j \in 1..Len(rs) :
            i < j => getRowStartTime(CurrentTab[rs[i]]) <= getRowStartTime(CurrentTab[rs[j]])

\* the same order in tabs all of whose rows of the date have a start time
C9_AscendingWhenAllRowsTimed ==
    (\A r \in 1..Len(CurrentTab) :
        CurrentTab[r].a = "29" => getRowStartTime(CurrentTab[r]) # NaN)
    => C9_RowsOfDateAscending

(***************************************************************************)
(* updateBooking, then fetchBookings                                       *)
(***************************************************************************)
\* the one-off bookings of the list with this room, start and end
CountOf(bks, roomId, start, end) ==
    Cardinality({k \in 1..Len(bks) :
                    /\ ~bks[k].isFixedSchedule
                    /\ bks[k].room_id = roomId
                    /\ bks[k].start_time = start
                    /\ bks[k].end_time = end})

\* after a successful update: one booking at the new time, none at the old
UpdateOutcome(old, new, call) ==
    call.status = "ok"
    => /\ CountOf(fetchBookings(call.sheet), new.room_id, new.start_time, new.end_time) = 1
       /\ CountOf(fetchBookings(call.sheet), old.room_id, old.start_time, old.end_time) = 0

\* the form has accepted a new time range for the booking, same room and date
EditSubmitted(old, initialData, submitted) ==
    (/\ submitted.error = ""
     /\ submitted.bookingData.room_id = old.room_id
     /\ DateOf(submitted.bookingData.start_time) = DateOf(old.start_time)
     /\ <<submitted.bookingData.start_time, submitted.bookingData.end_time>>
          # <<old.start_time, old.end_time>>)
    => UpdateOutcome(old, submitted.bookingData,
                     updateBooking(initialData.originalId, initialData.date,
                                   submitted.bookingData, sheet))

EditCase(old, form, bks) ==
    ~old.isFixedSchedule
    => EditSubmitted(old, handleEditBooking(old),
                     handleSubmit([form EXCEPT !.initialData = handleEditBooking(old),
                                               !.title = stripBookedBy(old.title)], bks))

\* C10: when every step succeeds, updateBooking on an existing booking with a new
\* time range leaves, for that room and date, exactly one booking at the new
\* time and none at the old time.
C10_UpdateThenFetch ==
    \A k \in 1..Len(bookings[Writer]) : \A form \in CreateForms :
        EditCase(bookings[Writer][k], form, bookings[Writer])

\* the booking of NHA TRANG on the 29th from 9:30 to 12:30 has been moved, and
\* the list shows one booking of that room and day, from 12:30 to 14:00
C10_Witness_Moved ==
    /\ result[Writer].op = "updateBooking"
    /\ result[Writer].status = "ok"
    /\ result[Writer].cited = <<"nha", "trang", "29", "09:30", "12:30">>
    /\ CountOf(bookings[Writer], "nha-trang", Instant(Dec29, 750), Instant(Dec29, 840)) = 1
    /\ CountOf(bookings[Writer], "nha-trang", Instant(Dec29, 570), Instant(Dec29, 750)) = 0

(***************************************************************************)
(* Network failures.  One request of a Facade call fails; `fail` names it, *)
(* "none" when every request succeeds.                                     *)
(***************************************************************************)
MaxTabRows == 7     \* the longest tab, rows left blank by a failed write included

NoFailure == "none"
\* the requests of createBooking: the token, the fixed schedules, the tab
\* titles, the two reads of the rows, insertDimension, values PUT
CreateSteps == {"token", "fixedSchedules", "sheetNames", "readRows", "readLast",
                "insert", "write"}
\* updateBooking adds findBookingRow and its own deleteDimension
UpdateSteps == CreateSteps \cup {"find", "delete"}

\* fetchFixedSchedules and fetchBookings catch every error and return []
fetchFixedSchedulesNet(sh, fail) ==
    IF fail = "fixedSchedules" THEN <<>> ELSE fetchFixedSchedules(sh)
fetchBookingsNet(sh, fail) ==
    IF fail = "bookings" THEN <<>> ELSE fetchBookings(sh)

\* createBooking after its conflict check.  Without the tab titles the requests
\* address the tab by the month name, which the API rejects unless a tab has
\* that title; a read that fails leaves the insert row to the next fallback
createBookingLocateNet(booking, sh, fail) ==
    LET gid == getMonthSheetGID(DateOf(booking.start_time), sh)
        sheetName == IF fail = "sheetNames" THEN monthNames[booking.start_time.m + 1]
                     ELSE getSheetNameFromGid(gid)
        known == TabOfTitle(sheetName) # ""
        rows == IF known
                THEN ValuesGet(sh[TabOfTitle(sheetName)], FirstDataRow,
                               Len(sh[TabOfTitle(sheetName)]))
                ELSE <<>>
        byDate == IF fail = "readRows" THEN 0
                  ELSE insertRowBySameDate(rows, ToString(booking.start_time.d),
                                           booking.start_time.min)
        afterLast == IF fail = "readLast" THEN FirstDataRow ELSE insertRowAfterLast(rows)
    IN  IF gid = NotFound
        THEN [status |-> "sheetNotFound"]
        ELSE [status |-> "ok", gid |-> gid, sheetName |-> sheetName, known |-> known,
              insertRowIndex |-> IF byDate # 0 THEN byDate ELSE afterLast,
              values |-> bookingValues(booking)]

createBookingCheckNet(hits, booking, sh, fail) ==
    IF hits # <<>>
    THEN [status |-> "fixedConflict", cited |-> hits[1]]
    ELSE createBookingLocateNet(booking, sh, fail)

createBookingPlanNet(booking, sh, fail) ==
    IF fail = "token" THEN [status |-> "error"]
    ELSE createBookingCheckNet(
             conflictingSchedules(booking, fetchFixedSchedulesNet(sh, fail)),
             booking, sh, fail)

\* the two writes: a failed insertDimension throws before any change, a failed
\* values PUT throws after the blank row has been put in
createBookingRunNet(plan, sh, fail) ==
    IF plan.status # "ok"
    THEN [status |-> plan.status, sheet |-> sh,
          cited |-> IF plan.status = "fixedConflict" THEN plan.cited ELSE <<>>]
    ELSE IF fail = "insert"
    THEN [status |-> "error", sheet |-> sh, cited |-> <<>>]
    ELSE IF fail = "write" \/ ~plan.known
    THEN [status |-> "error", sheet |-> createBookingInsert(plan, sh), cited |-> <<>>]
    ELSE [status |-> "ok", rowNumber |-> plan.insertRowIndex, gid |-> plan.gid,
          sheetName |-> plan.sheetName,
          sheet |-> createBookingWrite(plan, createBookingInsert(plan, sh))]

\* step 3 of createBooking, the copyPaste request that gives the new row the
\* look of the row above it (of the header for row 6)
FormatStep == "format"

sourceRowForFormat(insertRowIndex) ==
    IF insertRowIndex = FirstDataRow THEN FirstDataRow - 1
    ELSE IF insertRowIndex > FirstDataRow THEN insertRowIndex - 1
    ELSE 0

\* pasteType PASTE_FORMAT: the destination takes the cell formats of the
\* source, which the rows of the model do not hold; its values stay
copyPasteFormat(rows, source, destination) ==
    IF source >= 1 /\ source <= Len(rows) /\ destination >= 1 /\ destination <= Len(rows)
    THEN [rows EXCEPT ![destination] = rows[destination]]
    ELSE rows

\* the request's error is thrown to the caller of createBooking
createBookingFormatThrown(run, fail) ==
    IF run.status = "ok" /\ fail = FormatStep
    THEN [status |-> "error", sheet |-> run.sheet, cited |-> <<>>]
    ELSE run

\* the request is made when a source row exists; its error is caught and
\* logged, and the result of the two writes is returned
createBookingFormat(run, fail) ==
    IF run.status = "ok" /\ fail # FormatStep /\ sourceRowForFormat(run.rowNumber) > 0
    THEN [run EXCEPT !.sheet =
            [@ EXCEPT ![run.gid] = copyPasteFormat(@, sourceRowForFormat(run.rowNumber),
                                                   run.rowNumber)]]
    ELSE run

createBookingNet(booking, sh, fail) ==
    createBookingFormat(
        createBookingRunNet(createBookingPlanNet(booking, sh, fail), sh, fail), fail)

\* findBookingRow inside updateBooking: an error is caught, nothing is located
findBookingRowNet(bookingId, targetDate, sh, fail) ==
    IF fail = "find" THEN [status |-> "error", gid |-> "", allMatches |-> <<>>]
    ELSE findBookingRow(bookingId, targetDate, sh)

\* the old row is deleted first, whatever createBooking has answered
updateBookingStepsDeleteFirst(finderResult, createResult, fail) ==
    LET found == finderResult.status = "ok" /\ Len(finderResult.allMatches) > 0
        targetToDelete == finderResult.allMatches[1]
    IN  IF createResult.status = "ok" \/ ~found
        THEN updateBookingDelete(finderResult, createResult)
        ELSE [createResult EXCEPT
                !.status = "updateFailed:" \o createResult.status,
                !.sheet = [@ EXCEPT ![targetToDelete.gid] =
                             deleteDimension(@, targetToDelete.realRowIndex)]]

\* updateBooking after findBookingRow and createBooking: the delete request,
\* whose failure is caught and logged
updateBookingSteps(finderResult, createResult, fail) ==
    IF fail = "delete" /\ createResult.status = "ok"
    THEN createResult
    ELSE updateBookingDelete(finderResult, createResult)

updateBookingNet(originalBookingId, originalDate, newBookingData, sh, fail) ==
    updateBookingSteps(findBookingRowNet(originalBookingId, originalDate, sh, fail),
                       createBookingNet(newBookingData, sh, fail), fail)

\* handleBookingConfirm with a request that fails; loadData follows on success
\* and on failure alike
NetConfirmCall(c, form, call, fail) ==
    /\ WithinBounds(call.sheet)
    /\ \A gid \in DOMAIN call.sheet : Len(call.sheet[gid]) <= MaxTabRows
    /\ sheet' = call.sheet
    /\ bookings' = [bookings EXCEPT ![c] = loadData(call.sheet)]
    /\ UNCHANGED <<gidCache, clock, sheets>>
    /\ cache' = [cache EXCEPT ![c] = <<bookings'[c]>>]
    /\ result' = [result EXCEPT ![c] =
                    [op |-> IF form.initialData # NoData THEN "updateBooking"
                            ELSE "createBooking",
                     status |-> call.status, cited |-> <<>>, failed |-> fail]]

NetSubmitted(c, form, submitted, fail) ==
    /\ submitted.error = ""
    /\ NetConfirmCall(c, form,
           IF form.initialData # NoData
           THEN updateBookingNet(form.initialData.originalId, form.initialData.date,
                                 submitted.bookingData, sheet, fail)
           ELSE createBookingNet(submitted.bookingData, sheet, fail), fail)

NetCreate(c) ==
    /\ pc[c] = "idle"
    /\ \E form \in CreateForms : \E fail \in CreateSteps \cup {FormatStep, NoFailure} :
         NetSubmitted(c, form, handleSubmit(form, bookings[c]), fail)
    /\ UNCHANGED <<pc, req>>

NetEdit(c, old, form, fail) ==
    NetSubmitted(c, [form EXCEPT !.initialData = handleEditBooking(old),
                                 !.title = stripBookedBy(old.title)],
                 handleSubmit([form EXCEPT !.initialData = handleEditBooking(old),
                                           !.title = stripBookedBy(old.title)],
                              bookings[c]), fail)

\* an update whose createBooking fails changes the sheet as that createBooking
\* does alone (NetCreate); the failures chosen here are those of its own requests
NetUpdate(c) ==
    /\ pc[c] = "idle"
    /\ \E k \in 1..Len(bookings[c]) : \E form \in CreateForms :
       \E fail \in (UpdateSteps \ CreateSteps) \cup {NoFailure} :
         /\ ~bookings[c][k].isFixedSchedule
         /\ NetEdit(c, bookings[c][k], form, fail)
    /\ UNCHANGED <<pc, req>>

\* the December tab at start: empty, or one fixed schedule and one booking
NetTabs ==
    { EmptyTab("DECEMBER"),
      << LabelRow("DECEMBER"),
         FixedRow("Binh", "NHA TRANG", "", "09:30", "12:30", "", ""),
         BlankRow, BlankRow, HeaderRow,
         BookingRow(30, "Chi", "", "DA LAT", "", "", "12:30", "14:00") >> }

InitNet ==
    /\ \E dec \in NetTabs :
         sheet = [gid \in Gids |-> IF gid = "0" THEN dec ELSE EmptyTab("JANUARY 2026")]
    /\ bookings = [c \in Clients |-> loadData(sheet)]
    /\ result = [c \in Clients |-> NoResult]
    /\ pc = Idle
    /\ req = NoRequest
    /\ cache = [c \in Clients |-> <<bookings[c]>>]
    /\ LocatorAtRest

\* what the caller of a fetch gets: the promise resolves, with the list or with []
fetchBookingsOutcome(sh, fail) == [status |-> "ok", value |-> fetchBookingsNet(sh, fail)]
fetchFixedSchedulesOutcome(sh, fail) ==
    [status |-> "ok", value |-> fetchFixedSchedulesNet(sh, fail)]

\* the poll of the Dashboard: loadData, with a fetch that may fail
NetPoll(c) ==
    /\ pc[c] = "idle"
    /\ \E fail \in {"bookings", NoFailure} :
         /\ bookings' = [bookings EXCEPT ![c] = fetchBookingsOutcome(sheet, fail).value]
         /\ UNCHANGED <<gidCache, clock, sheets>>
         /\ cache' = IF fail = NoFailure THEN [cache EXCEPT ![c] = <<bookings'[c]>>]
                     ELSE cache
         /\ result' = [result EXCEPT ![c] =
                         [op |-> "fetchBookings",
                          status |-> fetchBookingsOutcome(sheet, fail).status,
                          cited |-> <<>>, failed |-> fail]]
    /\ UNCHANGED <<sheet, pc, req>>

NextNet == NetCreate(Writer) \/ NetUpdate(Writer) \/ NetPoll(Writer)

SpecNet == InitNet /\ [][NextNet]_vars

(***************************************************************************)
(* updateBooking with a failing request                                    *)
(***************************************************************************)
\* the one-off bookings every tab holds with this room, start and end
ListedAnywhere(sh, roomId, start, end) ==
    \E gid \in DOMAIN sh :
        CountOf(TabBookings(sh[gid], TabMonth(gid).y, TabMonth(gid).m),
                roomId, start, end) >= 1

\* after the call the new booking or the original one is in the sheet, and a
\* failed delete request after a successful createBooking is not an error
UpdateKeepsOne(old, new, call, fail) ==
    /\ \/ ListedAnywhere(call.sheet, new.room_id, new.start_time, new.end_time)
       \/ ListedAnywhere(call.sheet, old.room_id, old.start_time, old.end_time)
    /\ (fail = "delete" /\ createBooking(new, sheet).status = "ok") => call.status = "ok"

NetEditSubmitted(old, initialData, submitted, fail) ==
    submitted.error = ""
    => UpdateKeepsOne(old, submitted.bookingData,
                      updateBookingNet(initialData.originalId, initialData.date,
                                       submitted.bookingData, sheet, fail), fail)

NetEditCase(old, form, bks, fail) ==
    ~old.isFixedSchedule
    => NetEditSubmitted(old, handleEditBooking(old),
                        handleSubmit([form EXCEPT !.initialData = handleEditBooking(old),
                                                  !.title = stripBookedBy(old.title)], bks),
                        fail)

CompactRow(room, slot) ==
    FixedRow("Binh",
             IF room = "nha-trang" THEN "NHA TRANG" ELSE "",
             IF room = "da-lat" THEN "DA LAT" ELSE "",
             IF slot = 1 THEN "09:00" ELSE IF slot = 2 THEN "10:00" ELSE "",
             IF slot = 1 THEN "10:00" ELSE IF slot = 2 THEN "11:00" ELSE "",
             IF slot = 3 THEN "13:00" ELSE IF slot = 4 THEN "14:00" ELSE "",
             IF slot = 3 THEN "14:00" ELSE IF slot = 4 THEN "15:00" ELSE "")

\* rows 2..4 hold three fixed schedules of any mix of the two rooms, the header
\* is row 5, the booking table is empty or holds one booking
CompactTabs ==
    { << LabelRow("DECEMBER"), CompactRow(r1, 1), CompactRow(r2, 2), CompactRow(r3, s3),
         HeaderRow >> \o below :
        r1 \in RoomIds, r2 \in RoomIds, r3 \in RoomIds, s3 \in {3, 4},
        below \in {<<>>, <<BookingRow(30, "Chi", "", "DA LAT", "", "", "15:00", "16:00")>>} }

InitCompact ==
    /\ \E dec \in CompactTabs :
         sheet = [gid \in Gids |-> IF gid = "0" THEN dec ELSE EmptyTab("JANUARY 2026")]
    /\ bookings = [c \in Clients |-> loadData(sheet)]
    /\ result = [c \in Clients |-> NoResult]
    /\ pc = Idle
    /\ req = NoRequest
    /\ cache = [c \in Clients |-> <<bookings[c]>>]
    /\ LocatorAtRest

NextCompact == DeleteFixed(Writer)

SpecCompact == InitCompact /\ [][NextCompact]_vars

\* the row of the DATE / DAY header, and the rows above it that hold a fixed schedule
HeaderIndex(rows) ==
    CHOOSE k \in 1..Len(rows) :
        isBookingHeader(rows[k]) /\ \A j \in 1..(k - 1) : ~isBookingHeader(rows[j])
FixedRowsOf(rows) ==
    {k \in 2..(HeaderIndex(rows) - 1) : fixedRowEntries(rows[k], k) # <<>>}
IsInterval(S) == \A i \in S : \A j \in S : \A k \in i..j : k \in S
FullRegion(rows) ==
    FixedRowsOf(rows) # {} /\ FixedRowsOf(rows) = 2..(HeaderIndex(rows) - 1)

\* one fixed schedule fewer, the others in consecutive rows
OneFewerContiguous(before, after) ==
    /\ Cardinality(FixedRowsOf(after)) = Cardinality(FixedRowsOf(before)) - 1
    /\ IsInterval(FixedRowsOf(after))
\* the row above the header is not blank
NoGapAboveHeader(after) == RowAt(after, HeaderIndex(after) - 1) # BlankRow

DeleteCase(id, P(_, _)) ==
    scheduleRow(id) < HeaderIndex(CurrentTab) - 1
    => P(CurrentTab, deleteFixedSchedule(id, sheet).sheet[getCurrentMonthSheetGID(sheet)])

\* C12: deleting a fixed schedule that is not the last row of an N-row region
\* leaves exactly N-1 fixed-schedule rows, contiguous, with no blank row between
\* them and no blank gap row above the booking-table header.
C12_DeleteCompacts ==
    FullRegion(CurrentTab)
    => \A id \in ListedIds(fetchFixedSchedules(sheet)) :
         DeleteCase(id, LAMBDA before, after :
                           OneFewerContiguous(before, after) /\ NoGapAboveHeader(after))

\* the same without the row above the header
C12_DeleteLeavesContiguousRows ==
    FullRegion(CurrentTab)
    => \A id \in ListedIds(fetchFixedSchedules(sheet)) : DeleteCase(id, OneFewerContiguous)

\* the same in a region of NHA TRANG schedules only
C12_ContiguousWhenAllNhaTrang ==
    (FullRegion(CurrentTab) /\ \A k \in FixedRowsOf(CurrentTab) : CurrentTab[k].d # "")
    => \A id \in ListedIds(fetchFixedSchedules(sheet)) : DeleteCase(id, OneFewerContiguous)

(***************************************************************************)
(* getMonthSheetGID for months without a tab                               *)
(***************************************************************************)
\* months to resolve: the one before the current month, the two that have a
\* tab, the one after them, and the months of the two tabs one year later
ResolveDates ==
    {[y |-> ym[1], m |-> ym[2], d |-> 15] :
        ym \in {<<2025, 10>>, <<2025, 11>>, <<2026, 0>>, <<2026, 1>>, <<2026, 11>>, <<2027, 0>>}}

TabExists(date) == \E gid \in Gids : TabMonth(gid) = [y |-> date.y, m |-> date.m]

\* C13: resolving the sheet for a month whose tab does not exist fails with the
\* sheet-not-found error and never returns the id of a tab of another month or
\* another year.
C13_MissingTabNotFound ==
    \A date \in ResolveDates :
        ~TabExists(date) => getMonthSheetGID(date, sheet) = NotFound

\* the same for the months after the current one, within the years of the tabs
C13_NextMonthsNotFound ==
    \A date \in ResolveDates :
        (~TabExists(date) /\ date.y = 2026 /\ date.m < Now.m)
        => getMonthSheetGID(date, sheet) = NotFound

(***************************************************************************)
(* Calls rejected with a conflict error                                    *)
(***************************************************************************)
ConflictStatuses == {"fixedConflict", "bookingConflict", "updateFailed:fixedConflict"}

\* a call rejected with a conflict error answers with the sheet it was given
Untouched(call) == call.status \in ConflictStatuses => call.sheet = sheet

UntouchedByUpdate(old) ==
    ~old.isFixedSchedule
    => \A booking \in BookingInputs :
         Untouched(updateBooking(old.id, DateOf(old.start_time), booking, sheet))

\* C14: when createBooking, updateBooking, createFixedSchedule or
\* updateFixedSchedule is rejected with a conflict error, no row of the tab has
\* been inserted, written, cleared or deleted.
C14_ConflictLeavesTabAlone ==
    /\ \A booking \in BookingInputs : Untouched(createBooking(booking, sheet))
    /\ \A k \in 1..Len(bookings[Writer]) : UntouchedByUpdate(bookings[Writer][k])
    /\ \A schedule \in Schedules : Untouched(createFixedSchedule(schedule, sheet))
    /\ \A schedule \in Schedules : \A id \in ListedIds(fetchFixedSchedules(sheet)) :
         Untouched(updateFixedSchedule(id, schedule, sheet))

\* an update of a fixed schedule has been rejected for another fixed schedule
\* of the room, and both schedules are listed
C14_Witness_UpdateRejected ==
    /\ result[Writer].op = "updateFixedSchedule"
    /\ result[Writer].status = "fixedConflict"
    /\ Cardinality(ListedIds(fetchFixedSchedules(sheet))) = 2

(***************************************************************************)
(* createBooking with a failing request                                    *)
(***************************************************************************)
\* a createBooking that fails answers with the sheet it was given
FailsClean(call) == call.status # "ok" => call.sheet = sheet

\* C15: if createBooking fails at any step before the booking's values are
\* written (a failure of the value write after a successful row insert
\* included), the tab is left without mutation: no new row remains in it.
C15_FailedCreateLeavesTabAlone ==
    \A booking \in BookingInputs : \A fail \in CreateSteps :
        FailsClean(createBookingNet(booking, sheet, fail))

\* the same for the requests before insertDimension
C15_FailureBeforeInsertLeavesTabAlone ==
    \A booking \in BookingInputs : \A fail \in CreateSteps \ {"write", "sheetNames"} :
        FailsClean(createBookingNet(booking, sheet, fail))

(***************************************************************************)
(* updateFixedSchedule with a failing request                              *)
(***************************************************************************)
\* the requests of updateFixedSchedule after its checks: the token at the
\* start, values:clear of C..I, the batchUpdate that writes the new values
FixedSteps == {"token", "clear", "write"}

\* a clear that fails is logged and the write follows; a write that fails throws
updateFixedScheduleWriteNet(bookingCheck, rowNum, schedule, gid, sh, fail) ==
    LET sheetName == getSheetNameFromGid(gid)
        cleared == IF fail = "clear" THEN sh
                   ELSE [sh EXCEPT ![TabOfTitle(sheetName)] = updateCellsCI(@, rowNum, BlankRow)]
    IN  IF fail = "token" THEN [status |-> "error", cited |-> <<>>, sheet |-> sh]
        ELSE IF bookingCheck.status # "ok" \/ rowNum = NaN
        THEN updateFixedScheduleWrite(bookingCheck, rowNum, schedule, gid, sh)
        ELSE IF fail = "write" THEN [status |-> "error", cited |-> <<>>, sheet |-> cleared]
        ELSE [status |-> "ok", cited |-> <<>>, row |-> rowNum,
              sheet |-> [cleared EXCEPT ![gid] = updateCellsCI(@, rowNum, fixedValues(schedule))]]

updateFixedScheduleNet(scheduleId, schedule, sh, fail) ==
    updateFixedScheduleWriteNet(fixedScheduleCheck(schedule, scheduleRow(scheduleId), sh),
                                scheduleRow(scheduleId), schedule,
                                getCurrentMonthSheetGID(sh), sh, fail)

\* FixedScheduleModal.handleSubmit with editingSchedule and a request that may fail
NetFixedCall(c, call, fail) ==
    /\ WithinBounds(call.sheet)
    /\ sheet' = call.sheet
    /\ bookings' = [bookings EXCEPT ![c] = loadData(call.sheet)]
    /\ UNCHANGED <<gidCache, clock, sheets>>
    /\ cache' = [cache EXCEPT ![c] = <<bookings'[c]>>]
    /\ result' = [result EXCEPT ![c] =
                    [op |-> "updateFixedSchedule", status |-> call.status,
                     cited |-> call.cited, failed |-> fail]]

NetUpdateFixed(c) ==
    /\ pc[c] = "idle"
    /\ \E schedule \in Schedules : \E id \in ListedIds(fetchFixedSchedules(sheet)) :
       \E fail \in FixedSteps \cup {NoFailure} :
         NetFixedCall(c, updateFixedScheduleNet(id, schedule, sheet, fail), fail)
    /\ UNCHANGED <<pc, req>>

\* the fixed schedules page over a network that may fail during an update
NextNetFixed ==
    \/ CreateFixed(Writer)
    \/ NetUpdateFixed(Writer)
    \/ DeleteFixed(Writer)

SpecNetFixed == Init /\ [][NextNetFixed]_vars

\* a failed update answers with the row as it was
RowKept(rowNum, call) ==
    call.status # "ok"
    => RowAt(call.sheet[getCurrentMonthSheetGID(sheet)], rowNum) = RowAt(CurrentTab, rowNum)

\* C16: if updateFixedSchedule fails, the fixed-schedule row it targeted still
\* holds its previous staff, room and time values; the clear of columns C..I
\* never survives a failed write.
C16_FailedUpdateKeepsRow ==
    \A schedule \in Schedules : \A id \in ListedIds(fetchFixedSchedules(sheet)) :
    \A fail \in FixedSteps \cup {NoFailure} :
        RowKept(scheduleRow(id), updateFixedScheduleNet(id, schedule, sheet, fail))

\* the same when the request that fails is not the write
C16_KeepsRowUnlessWriteFails ==
    \A schedule \in Schedules : \A id \in ListedIds(fetchFixedSchedules(sheet)) :
    \A fail \in (FixedSteps \ {"write"}) \cup {NoFailure} :
        RowKept(scheduleRow(id), updateFixedScheduleNet(id, schedule, sheet, fail))

(***************************************************************************)
(* Failures at the Facade boundary                                         *)
(***************************************************************************)
\* the caller is told of the failure
Surfaced(call) == call.status # "ok"

SurfacedByUpdate(old, fail) ==
    ~old.isFixedSchedule
    => \A booking \in BookingInputs :
         Surfaced(updateBookingNet(old.id, DateOf(old.start_time), booking, sheet, fail))

\* C17: a network or API failure during a Facade operation is surfaced to the
\* caller as an error; it is never turned into a normal-looking result such as
\* an empty list.
C17_FailuresSurfaced ==
    /\ Surfaced(fetchBookingsOutcome(sheet, "bookings"))
    /\ Surfaced(fetchFixedSchedulesOutcome(sheet, "fixedSchedules"))
    /\ \A booking \in BookingInputs : \A fail \in CreateSteps :
         Surfaced(createBookingNet(booking, sheet, fail))
    /\ \A k \in 1..Len(bookings[Writer]) : \A fail \in UpdateSteps :
         SurfacedByUpdate(bookings[Writer][k], fail)

\* the failures that createBooking does surface: the token and the two writes
C17_WriteFailuresSurfaced ==
    \A booking \in BookingInputs : \A fail \in {"token", "insert", "write"} :
        Surfaced(createBookingNet(booking, sheet, fail))

(***************************************************************************)
(* The Dashboard opened from the cache.  loadData first shows the cached   *)
(* list, then replaces it by the fetched one; the booking form is usable   *)
(* in between.                                                             *)
(***************************************************************************)
\* loadData up to its await: setBookings(cachedBookings) if there is a cached list
CacheOpen(c) ==
    /\ pc[c] = "idle"
    /\ pc' = [pc EXCEPT ![c] = "loading"]
    /\ bookings' = [bookings EXCEPT ![c] = IF cache[c] # <<>> THEN cache[c][1] ELSE <<>>]
    /\ UNCHANGED <<sheet, result, req, cache, gidCache, clock, sheets>>

\* loadData after its await: setBookings(bookingsData); fetchBookings has saved the list
CacheFetched(c) ==
    /\ pc[c] = "loading"
    /\ pc' = [pc EXCEPT ![c] = "idle"]
    /\ bookings' = [bookings EXCEPT ![c] = loadData(sheet)]
    /\ UNCHANGED <<gidCache, clock, sheets>>
    /\ cache' = [cache EXCEPT ![c] = <<bookings'[c]>>]
    /\ UNCHANGED <<sheet, result, req>>

\* handleSubmit on the list the Dashboard holds, then handleBookingConfirm and
\* its loadData; `list` tells where the list of the conflict check came from
CacheSubmitCall(c, submitted, call) ==
    IF submitted.error # ""
    THEN /\ result' = [result EXCEPT ![c] =
                         [op |-> "submit", status |-> submitted.error, cited |-> <<>>,
                          list |-> IF pc[c] = "loading" THEN "cache" ELSE "sheet"]]
         /\ UNCHANGED <<sheet, bookings, cache, gidCache, clock, sheets, pc>>
    ELSE /\ WithinBounds(call.sheet)
         /\ sheet' = call.sheet
         /\ bookings' = [bookings EXCEPT ![c] = loadData(call.sheet)]
         /\ UNCHANGED <<gidCache, clock, sheets>>
         /\ cache' = [cache EXCEPT ![c] = <<bookings'[c]>>]
         /\ pc' = [pc EXCEPT ![c] = "idle"]
         /\ result' = [result EXCEPT ![c] =
                         [op |-> "createBooking", status |-> call.status, cited |-> <<>>,
                          list |-> IF pc[c] = "loading" THEN "cache" ELSE "sheet"]]

CacheSubmitted(c, submitted) ==
    CacheSubmitCall(c, submitted,
                    IF submitted.error # "" THEN [status |-> "none", sheet |-> sheet]
                    ELSE createBooking(submitted.bookingData, sheet))

CacheSubmit(c) ==
    /\ pc[c] \in {"idle", "loading"}
    /\ \E form \in RaceForms : CacheSubmitted(c, handleSubmit(form, bookings[c]))
    /\ UNCHANGED req

NextCache ==
    \E c \in Clients :
        \/ CacheOpen(c)
        \/ CacheFetched(c)
        \/ CacheSubmit(c)

SpecCache == Init /\ [][NextCache]_vars

\* C18: the list of bookings against which a new or edited booking is checked
\* for conflicts is never data taken from the local cache: a conflict decision
\* is always made on bookings fetched from the sheet.
C18_ConflictCheckOnFetchedList ==
    \A c \in Clients :
        result[c].op \in {"submit", "createBooking"} => result[c].list = "sheet"

(***************************************************************************)
(* Row Interpreter - fixed schedules, CSV fallback.  fetchFixedSchedules   *)
(* parses the CSV export of the tab when the values request is answered    *)
(* with an error status.  The CSV rows are the rows of the tab; no cell of *)
(* the model holds two times or four words, so a cell is its own first     *)
(* time and its own list of distinct words.                                *)
(***************************************************************************)
\* cleaned.replace(/DAY|DATE/g, "").trim()
removeHeaderWords(s) == IF s \in {"DAY", "DATE"} THEN "" ELSE s

\* row 1 with a folded header cell in column C: staff from C, room from D
isConcatenatedRow(row, rowNum) ==
    /\ rowNum = 1
    /\ includes(UpperTrim(row.c), "TEAM")
    /\ includes(UpperTrim(row.c), "BOOKING STAFF")

\* one CSV row: "stop" at the booking table, "skip", or the 7 entries of the row
csvRowEntries(row, rowNum) ==
    LET firstCell == UpperTrim(row.a)
        secondCell == UpperTrim(row.b)
        colB == row.b
        colC == UpperTrim(row.c)
        colD == row.d
        colE == row.e
        originalStaffName == IF isConcatenatedRow(row, rowNum) THEN colC ELSE colB
        originalRoomValue == IF isConcatenatedRow(row, rowNum) THEN colD ELSE colC
        startTime == colD
        endTime == colE
        staffName == removeHeaderWords(originalStaffName)
        roomValue == originalRoomValue
        isEmptyRow == roomValue = "" \/ startTime = "" \/ endTime = ""
        hasDateInA == includes(firstCell, "DATE") /\ ~includes(firstCell, "DECEMBER")
        hasDayInB == includes(secondCell, "DAY") /\ ~includes(secondCell, "DAILY")
        hasBookingStaffInC == includes(originalStaffName, "BOOKING STAFF")
        hasMeetingRoomInD == includes(originalRoomValue, "MEETING ROOM")
                             /\ includes(originalRoomValue, "\n")
        hasValidTime == matchesTime(startTime) /\ matchesTime(endTime)
        hasValidRoom == /\ roomValue # ""
                        /\ ~includes(roomValue, "MEETING ROOM")
                        /\ (includes(UpperTrim(roomValue), "NHA TRANG")
                            \/ includes(UpperTrim(roomValue), "DA LAT"))
        hasValidStaff == /\ staffName # ""
                         /\ ~includes(staffName, "BOOKING STAFF")
                         /\ ~includes(staffName, "DAY")
                         /\ ~includes(staffName, "DATE")
        isPureHeaderRow == (hasDateInA /\ hasDayInB) \/ (hasDayInB /\ hasBookingStaffInC)
                           \/ hasMeetingRoomInD
        roomId == IF includes(roomValue, "NHA TRANG") THEN "nha-trang"
                  ELSE IF includes(roomValue, "DA LAT") THEN "da-lat"
                  ELSE ""
        staffIndex == 0
    IN  IF ~(hasValidTime /\ hasValidRoom /\ hasValidStaff)
        THEN IF isEmptyRow THEN [status |-> "skip", entries |-> <<>>]
             ELSE IF isPureHeaderRow THEN [status |-> "stop", entries |-> <<>>]
             ELSE [status |-> "skip", entries |-> <<>>]
        ELSE IF roomId = "" THEN [status |-> "skip", entries |-> <<>>]
        ELSE [status |-> "entries",
              entries |->
                [k \in 1..ExpandDays |->
                    [id |-> <<"fixed", ToString(rowNum), ToString(staffIndex),
                              ToString(k - 1)>> \o split(roomId),
                     dayOfWeek |-> k - 1,
                     room_id |-> roomId,
                     start_time |-> formatHHmm(TimeTable[startTime]),
                     end_time |-> formatHHmm(TimeTable[endTime]),
                     staff_name |-> staffName,
                     row |-> rowNum]]]

RECURSIVE csvFrom(_, _)
csvFrom(rows, rowNum) ==
    IF rowNum > Len(rows) \/ rowNum > FixedScanLastRow THEN <<>>
    ELSE IF csvRowEntries(rows[rowNum], rowNum).status = "stop" THEN <<>>
    ELSE csvRowEntries(rows[rowNum], rowNum).entries \o csvFrom(rows, rowNum + 1)

MinCsvRows == 3     \* if (rows.length < 3) resolve([])

fetchFixedSchedulesCSV(sh) ==
    LET gid == getCurrentMonthSheetGID(sh)
        rows == sh[gid]
    IN  IF Len(rows) < MinCsvRows THEN <<>> ELSE csvFrom(rows, 1)

\* the requests of fetchFixedSchedules: a request that throws ("token") ends in
\* the catch and []; a values request answered with an error status ("values")
\* leads to the CSV fallback
FetchFixedSteps == {"token", "values"}
fetchFixedSchedulesVia(sh, fail) ==
    IF fail = "token" THEN <<>>
    ELSE IF fail = "values" THEN fetchFixedSchedulesCSV(sh)
    ELSE fetchFixedSchedules(sh)

\* FixedSchedulesPage.loadData: setSchedules(schedulesData)
NetFetchFixed(c) ==
    /\ pc[c] = "idle"
    /\ \E fail \in FetchFixedSteps \cup {NoFailure} :
         result' = [result EXCEPT ![c] =
                      [op |-> "fetchFixedSchedules", status |-> "ok", cited |-> <<>>,
                       value |-> fetchFixedSchedulesVia(sheet, fail), failed |-> fail]]
    /\ UNCHANGED <<sheet, bookings, cache, gidCache, clock, sheets, pc, req>>

\* the fixed schedules page: its list is loaded, schedules are added and deleted
NextFixedRead ==
    \/ CreateFixed(Writer)
    \/ DeleteFixed(Writer)
    \/ NetFetchFixed(Writer)

SpecFixedRead == Init /\ [][NextFixedRead]_vars

\* a row above the booking table with a staff name, a room flag and a time pair
IsFixedRow(row) ==
    row.c # "" /\ fixedRowRoom(row) # "" /\ fixedRowTimes(row) # <<"", "">>
ValidFixedRows(rows) == {k \in 2..(HeaderIndex(rows) - 1) : IsFixedRow(rows[k])}

EntriesOfRow(entries, rowNum) == SelectSeq(entries, LAMBDA e : e.row = rowNum)

\* the entries of one row: 7, one per day of the week, all with the row's values
ExpandsToSeven(mine, row, rowNum) ==
    /\ Len(mine) = 7
    /\ {mine[k].dayOfWeek : k \in 1..Len(mine)} = 0..6
    /\ \A k \in 1..Len(mine) :
         /\ mine[k].room_id = fixedRowRoom(row)
         /\ mine[k].start_time = formatHHmm(TimeTable[fixedRowTimes(row)[1]])
         /\ mine[k].end_time = formatHHmm(TimeTable[fixedRowTimes(row)[2]])
         /\ mine[k].staff_name = row.c
         /\ mine[k].row = rowNum

DistinctIds(entries) ==
    \A j \in 1..Len(entries) : \A k \in 1..Len(entries) :
        entries[j].id = entries[k].id => j = k

AllExpanded(entries, rows) ==
    /\ \A k \in ValidFixedRows(rows) : ExpandsToSeven(EntriesOfRow(entries, k), rows[k], k)
    /\ DistinctIds(entries)

CurrentRows(sh) == sh[getCurrentMonthSheetGID(sh)]

\* C19: fetchFixedSchedules expands every valid fixed-schedule row into exactly
\* 7 entries, one per dayOfWeek 0..6, all with that row's room, start time, end
\* time, staff name and row number, and with pairwise distinct identifiers;
\* stated for every way the fetch answers with a list: the values API and the
\* CSV fallback.
C19_ValidRowExpandsToSeven ==
    \A fail \in {NoFailure, "values"} :
        AllExpanded(fetchFixedSchedulesVia(sheet, fail), CurrentRows(sheet))

\* the same for the values API alone
C19_ApiExpandsToSeven ==
    AllExpanded(fetchFixedSchedulesVia(sheet, NoFailure), CurrentRows(sheet))

\* two valid rows are listed and the list has been loaded through the values API
C19_Witness_TwoRowsLoaded ==
    /\ Cardinality(ValidFixedRows(CurrentRows(sheet))) = 2
    /\ result[Writer].op = "fetchFixedSchedules"
    /\ result[Writer].failed = NoFailure
    /\ Len(result[Writer].value) = 14

(***************************************************************************)
(* Fixed schedules as bookings of the month                                *)
(***************************************************************************)
\* the months a conversion is asked for: the current one, the months around
\* it, the same month of the years around it
ViewedMonths ==
    {[y |-> 2025, m |-> 11], [y |-> 2025, m |-> 10], [y |-> 2026, m |-> 0],
     [y |-> 2024, m |-> 11], [y |-> 2026, m |-> 11]}

RemainingDays == Now.d..DaysInMonth(Now.y, Now.m)

\* the synthetic bookings of one row on one day: the id of a synthetic booking
\* is fixed-<schedule id>-<day>, the schedule id fixed-<row>-<dayOfWeek>-<room>
SyntheticOf(out, rowNum, day) ==
    {k \in 1..Len(out) : out[k].id[3] = ToString(rowNum) /\ out[k].start_time.d = day}

MaterialisedFromToday(fixedSchedules, rows, view, out) ==
    IF view.y # Now.y \/ view.m # Now.m THEN out = <<>>
    ELSE /\ \A k \in 1..Len(out) :
              /\ out[k].isFixedSchedule
              /\ out[k].start_time.y = Now.y /\ out[k].start_time.m = Now.m
              /\ out[k].start_time.d >= Now.d
              /\ out[k].start_time.d <= DaysInMonth(Now.y, Now.m)
         /\ \A rowNum \in ValidFixedRows(rows) : \A day \in RemainingDays :
              Cardinality(SyntheticOf(out, rowNum, day)) = 1
         /\ Len(out) = Cardinality(ValidFixedRows(rows)) * Cardinality(RemainingDays)

\* C20: fixed schedules are materialised as bookings only when the viewed month
\* and year equal the real current month and year, and then only for calendar
\* dates on or after today: for any other month the expansion is empty, and no
\* synthetic booking has a date before today.  Each fixed schedule row yields
\* exactly one synthetic booking per remaining date of the month.
C20_FixedMaterialisedFromToday ==
    \A view \in ViewedMonths :
        MaterialisedFromToday(fetchFixedSchedules(sheet), CurrentRows(sheet), view,
            convertFixedSchedulesToBookings(fetchFixedSchedules(sheet), view.y, view.m))

\* two fixed schedules are listed and the Dashboard shows their bookings of the
\* remaining days of the month
C20_Witness_TwoRowsMaterialised ==
    /\ Cardinality(ValidFixedRows(CurrentRows(sheet))) = 2
    /\ Cardinality({k \in 1..Len(bookings[Writer]) : bookings[Writer][k].isFixedSchedule})
         = 2 * Cardinality(RemainingDays)
    /\ result[Writer].op = "createFixedSchedule"
    /\ result[Writer].status = "ok"

(***************************************************************************)
(* Rows typed by hand: the sheet is edited in the browser as well, so a    *)
(* tab can hold rows the forms of the application would have refused       *)
(***************************************************************************)
TypedTabs ==
    { << LabelRow("DECEMBER"),
         FixedRow("Binh", "NHA TRANG", "", "12:30", "09:30", "", ""),
         BlankRow, BlankRow, HeaderRow,
         BookingRow(30, "Chi", "NHA TRANG", "", "9:30", "12:30", "", "") >>,
      << LabelRow("DECEMBER"),
         FixedRow("Binh", "", "DA LAT", "09:30", "09:30", "", ""),
         BlankRow, BlankRow, HeaderRow,
         [BookingRow(30, "Chi", "NHA TRANG", "", "9:30", "12:30", "", "") EXCEPT !.a = ""],
         BookingRow(30, "Chi", "", "", "9:30", "12:30", "", "") >>,
      << LabelRow("DECEMBER"), BlankRow, BlankRow, BlankRow, HeaderRow,
         BookingRow(30, "Chi", "NHA TRANG", "", "9h30", "12:30", "12:30", "12:30"),
         BookingRow(29, "An", "NHA TRANG", "DA LAT", "14:00", "12:30", "9:30", "12:30") >>,
      << LabelRow("DECEMBER"),
         FixedRow("Binh", "NHA TRANG", "", "09:30", "12:30", "", ""),
         BlankRow, BlankRow, HeaderRow,
         BookingRow(30, "Chi", "", "DA LAT", "", "12:30", "12:30", "14:00") >>,
      << LabelRow("DECEMBER"), BlankRow, BlankRow, BlankRow, HeaderRow,
         BookingRow(30, "Chi", "NHA TRANG", "", "9:30", "12:30", "", ""),
         BookingRow(30, "Chi", "", "DA LAT", "9:30", "12:30", "", ""),
         BookingRow(30, "An", "NHA TRANG", "", "9:30", "14:00", "", "") >> }

InitTyped ==
    /\ \E dec \in TypedTabs :
         sheet = [gid \in Gids |-> IF gid = "0" THEN dec ELSE EmptyTab("JANUARY 2026")]
    /\ bookings = [c \in Clients |-> loadData(sheet)]
    /\ result = [c \in Clients |-> NoResult]
    /\ pc = Idle
    /\ req = NoRequest
    /\ cache = [c \in Clients |-> <<bookings[c]>>]
    /\ LocatorAtRest

\* the Dashboard over such a tab
SpecTyped == InitTyped /\ [][Next]_vars

EndsAfterStart(b) == getTime(b.end_time) > getTime(b.start_time)

\* a time pair of a data row that can stand for a booking
GoodPair(startStr, endStr) ==
    /\ IsTimeString(startStr) /\ IsTimeString(endStr)
    /\ TimeTable[endStr] > TimeTable[startStr]
GoodPairCount(row) ==
    (IF GoodPair(row.f, row.g) THEN 1 ELSE 0) + (IF GoodPair(row.h, row.i) THEN 1 ELSE 0)
FlaggedRoomCount(row) ==
    (IF isRoomFlag(row.d, "NHA TRANG") THEN 1 ELSE 0)
    + (IF isRoomFlag(row.e, "DA LAT") THEN 1 ELSE 0)
\* the bookings a data row stands for: none without a date or a room
ExpectedOfRow(row) ==
    IF parseInt(row.a) = NaN THEN 0 ELSE FlaggedRoomCount(row) * GoodPairCount(row)

RECURSIVE ExpectedFrom(_, _)
ExpectedFrom(rows, k) ==
    IF k > Len(rows) THEN 0 ELSE ExpectedOfRow(rows[k]) + ExpectedFrom(rows, k + 1)

OneOff(list) == SelectSeq(list, LAMBDA b : ~b.isFixedSchedule)
Synthetic(list) == SelectSeq(list, LAMBDA b : b.isFixedSchedule)

AllEndAfterStart(list) == \A k \in 1..Len(list) : EndsAfterStart(list[k])

\* the bookings parsed from data rows: one per good pair and flagged room, no other
SkipsBadRows(list, rows) ==
    Len(OneOff(list)) = ExpectedFrom(rows, FirstScanIndex + 1)

\* C21: every booking returned by fetchBookings, whether parsed from a data row
\* or materialised from a fixed schedule, has end > start; a row with a missing
\* date, no assigned room, or an unparseable or zero-length time pair produces
\* no booking and no error.
C21_EveryBookingEndsAfterStart ==
    /\ AllEndAfterStart(fetchBookings(sheet))
    /\ SkipsBadRows(fetchBookings(sheet), CurrentRows(sheet))

\* the same for the bookings parsed from data rows alone
C21_DataRowBookingsEndAfterStart ==
    /\ AllEndAfterStart(OneOff(fetchBookings(sheet)))
    /\ SkipsBadRows(fetchBookings(sheet), CurrentRows(sheet))

(***************************************************************************)
(* Row-shift correction of updateBooking                                   *)
(***************************************************************************)
\* the first row number at which two lists of rows differ
FirstDifference(a, b) ==
    CHOOSE k \in 1..(Len(b) + 1) :
        /\ k = Len(b) + 1 \/ k > Len(a) \/ a[k] # b[k]
        /\ \A j \in 1..(k - 1) : j <= Len(a) /\ a[j] = b[j]

\* where row `rowNumber` of `before` is in `after`, which is `before` with at
\* most one row put in: the rows from the new row on have moved down by one
PlaceAfterInsert(before, after, rowNumber) ==
    IF after = before THEN rowNumber
    ELSE IF FirstDifference(before, after) <= rowNumber THEN rowNumber + 1
    ELSE rowNumber

RemoveAt(rows, rowNumber) ==
    Trim(SubSeq(rows, 1, rowNumber - 1) \o SubSeq(rows, rowNumber + 1, Len(rows)))

\* the delete step takes out the located row, wherever the new row went
RemovesLocatedRow(gid, located, before, created, final) ==
    /\ created[gid][PlaceAfterInsert(before[gid], created[gid], located)]
         = before[gid][located]
    /\ final[gid] = RemoveAt(created[gid], PlaceAfterInsert(before[gid], created[gid], located))
    /\ \A other \in DOMAIN final : other # gid => final[other] = created[other]

ShiftCase(finderResult, createResult, call) ==
    (/\ createResult.status = "ok"
     /\ finderResult.status = "ok"
     /\ Len(finderResult.allMatches) > 0)
    => /\ call.status = "ok"
       /\ RemovesLocatedRow(finderResult.gid, finderResult.allMatches[1].realRowIndex + 1,
                            sheet, createResult.sheet, call.sheet)

ShiftCaseOf(old, new) ==
    ~old.isFixedSchedule
    => ShiftCase(findBookingRow(old.id, DateOf(old.start_time), sheet),
                 createBooking(new, sheet),
                 updateBooking(old.id, DateOf(old.start_time), new, sheet))

\* C22: row-shift correction: in updateBooking with no concurrent writer, the
\* row removed by the delete step is exactly the row that findBookingRow located
\* for the original booking; the deletion index is increased by one if and only
\* if the new row was inserted in the same tab at an index at or above the old
\* row's index, and is unchanged when the new row went below it or into another
\* tab.
C22_DeleteRemovesLocatedRow ==
    \A k \in 1..Len(bookings[Writer]) : \A new \in BookingInputs :
        ShiftCaseOf(bookings[Writer][k], new)

\* the booking of NHA TRANG on the 29th from 12:30 to 14:00 has been moved to
\* 9:30, so its new row went in above the old one
C22_Witness_MovedUp ==
    /\ result[Writer].op = "updateBooking"
    /\ result[Writer].status = "ok"
    /\ result[Writer].cited = <<"nha", "trang", "29", "12:30", "14:00">>
    /\ CountOf(bookings[Writer], "nha-trang", Instant(Dec29, 570), Instant(Dec29, 750)) = 1
    /\ CountOf(bookings[Writer], "nha-trang", Instant(Dec29, 750), Instant(Dec29, 840)) = 0

(***************************************************************************)
(* Locate, then mutate: deleteBooking and updateBooking request by request *)
(* next to another writer.  The call in flight keeps what findBookingRow   *)
(* answered; `located` are the rows it matched and `seen` the tabs as the  *)
(* call last read or wrote them, kept to tell afterwards what was removed. *)
(***************************************************************************)
HasTarget(finderResult) == finderResult.status = "ok" /\ Len(finderResult.allMatches) > 0

\* the rows a finder result points at
LocatedRows(finderResult, sh) ==
    [k \in 1..Len(finderResult.allMatches) |->
        RowAt(sh[finderResult.gid], finderResult.allMatches[k].realRowIndex + 1)]

\* the row a deleteDimension request took out of a tab
RemovedRow(before, after) == RowAt(before, FirstDifference(after, before))

\* deleteBooking: await findBookingRow
LocDeleteFind(c) ==
    /\ pc[c] = "idle"
    /\ \E k \in 1..Len(bookings[c]) :
         LET finderResult == findBookingRow(bookings[c][k].id,
                                            DateOf(bookings[c][k].start_time), sheet)
         IN  /\ ~bookings[c][k].isFixedSchedule
             /\ IF HasTarget(finderResult)
                THEN /\ pc' = [pc EXCEPT ![c] = "delete"]
                     /\ req' = [req EXCEPT ![c] =
                                  [op |-> "deleteBooking", finder |-> finderResult,
                                   located |-> LocatedRows(finderResult, sheet),
                                   seen |-> sheet, clean |-> TRUE]]
                     /\ UNCHANGED result
                ELSE /\ result' = [result EXCEPT ![c] =
                                     [op |-> "deleteBooking", status |-> "notFound",
                                      cited |-> <<>>]]
                     /\ UNCHANGED <<pc, req>>
    /\ UNCHANGED <<sheet, bookings, cache, gidCache, clock, sheets>>

\* deleteBooking: the batchUpdate with its deleteDimension requests, then loadData
LocDeleteRequest(c) ==
    /\ pc[c] = "delete"
    /\ req[c].op = "deleteBooking"
    /\ sheet' = deleteBookingRows(req[c].finder, sheet).sheet
    /\ result' = [result EXCEPT ![c] =
                    [op |-> "deleteBooking", status |-> "ok", cited |-> <<>>,
                     located |-> req[c].located,
                     removed |-> LocatedRows(req[c].finder, sheet),
                     interfered |-> req[c].seen # sheet]]
    /\ bookings' = [bookings EXCEPT ![c] = loadData(sheet')]
    /\ UNCHANGED <<gidCache, clock, sheets>>
    /\ cache' = [cache EXCEPT ![c] = <<bookings'[c]>>]
    /\ pc' = [pc EXCEPT ![c] = "idle"]
    /\ req' = [req EXCEPT ![c] = <<>>]

\* the row updateBooking means to delete: allMatches[0]
FirstLocated(finderResult, sh) ==
    IF HasTarget(finderResult)
    THEN <<RowAt(sh[finderResult.gid], finderResult.allMatches[1].realRowIndex + 1)>>
    ELSE <<>>

\* handleSubmit of the edit form, then updateBooking: await findBookingRow
LocUpdateFound(c, submitted, finderResult) ==
    IF submitted.error # ""
    THEN /\ result' = [result EXCEPT ![c] =
                         [op |-> "submit", status |-> submitted.error, cited |-> <<>>]]
         /\ UNCHANGED <<pc, req>>
    ELSE /\ pc' = [pc EXCEPT ![c] = "create"]
         /\ req' = [req EXCEPT ![c] =
                      [op |-> "updateBooking", finder |-> finderResult,
                       booking |-> submitted.bookingData,
                       located |-> FirstLocated(finderResult, sheet),
                       seen |-> sheet, clean |-> TRUE]]
         /\ UNCHANGED result

LocUpdateFind(c) ==
    /\ pc[c] = "idle"
    /\ \E k \in 1..Len(bookings[c]) : \E form \in RaceForms :
         /\ ~bookings[c][k].isFixedSchedule
         /\ LocUpdateFound(c,
               handleSubmit([form EXCEPT !.initialData = handleEditBooking(bookings[c][k]),
                                         !.title = stripBookedBy(bookings[c][k].title)],
                            bookings[c]),
               findBookingRow(bookings[c][k].id, DateOf(bookings[c][k].start_time), sheet))
    /\ UNCHANGED <<sheet, bookings, cache, gidCache, clock, sheets>>

\* updateBooking: await createBooking
LocUpdateCreated(c, createResult) ==
    IF createResult.status # "ok"
    THEN /\ result' = [result EXCEPT ![c] =
                         [op |-> "updateBooking",
                          status |-> "updateFailed:" \o createResult.status,
                          cited |-> <<>>]]
         /\ pc' = [pc EXCEPT ![c] = "idle"]
         /\ req' = [req EXCEPT ![c] = <<>>]
         /\ UNCHANGED <<sheet, bookings, cache, gidCache, clock, sheets>>
    ELSE /\ DataRowCount(createResult.sheet[createResult.gid]) <= MaxRows + 1
         /\ sheet' = createResult.sheet
         /\ IF HasTarget(req[c].finder)
            THEN /\ pc' = [pc EXCEPT ![c] = "delete"]
                 /\ req' = [req EXCEPT ![c] =
                              [req[c] EXCEPT !.seen = createResult.sheet,
                                             !.clean = (req[c].seen = sheet)]
                              @@ [rowNumber |-> createResult.rowNumber,
                                  gid |-> createResult.gid]]
                 /\ UNCHANGED <<result, bookings, cache, gidCache, clock, sheets>>
            ELSE /\ result' = [result EXCEPT ![c] =
                                 [op |-> "updateBooking", status |-> "ok", cited |-> <<>>,
                                  located |-> <<>>, removed |-> <<>>,
                                  interfered |-> req[c].seen # sheet]]
                 /\ bookings' = [bookings EXCEPT ![c] = loadData(sheet')]
                 /\ UNCHANGED <<gidCache, clock, sheets>>
                 /\ cache' = [cache EXCEPT ![c] = <<bookings'[c]>>]
                 /\ pc' = [pc EXCEPT ![c] = "idle"]
                 /\ req' = [req EXCEPT ![c] = <<>>]

LocUpdateCreate(c) ==
    /\ pc[c] = "create"
    /\ LocUpdateCreated(c, createBooking(req[c].booking, sheet))

\* updateBooking: the corrected index and the deleteDimension request, then loadData
LocUpdateDeleted(c, call) ==
    /\ sheet' = call.sheet
    /\ result' = [result EXCEPT ![c] =
                    [op |-> "updateBooking", status |-> "ok", cited |-> <<>>,
                     located |-> req[c].located,
                     removed |-> <<RemovedRow(sheet[req[c].finder.gid],
                                              call.sheet[req[c].finder.gid])>>,
                     interfered |-> ~req[c].clean \/ req[c].seen # sheet]]
    /\ bookings' = [bookings EXCEPT ![c] = loadData(sheet')]
    /\ UNCHANGED <<gidCache, clock, sheets>>
    /\ cache' = [cache EXCEPT ![c] = <<bookings'[c]>>]
    /\ pc' = [pc EXCEPT ![c] = "idle"]
    /\ req' = [req EXCEPT ![c] = <<>>]

LocUpdateDelete(c) ==
    /\ pc[c] = "delete"
    /\ req[c].op = "updateBooking"
    /\ LocUpdateDeleted(c, updateBookingDelete(req[c].finder,
                              [status |-> "ok", rowNumber |-> req[c].rowNumber,
                               gid |-> req[c].gid, sheet |-> sheet]))

\* the other Dashboard books NHA TRANG on the 29th
LocOtherCreate(c) ==
    /\ pc[c] = "idle"
    /\ \E form \in RaceForms : Confirm(c, form)
    /\ UNCHANGED <<pc, req>>

\* two Dashboards on one sheet: one runs its delete and update request by
\* request, the other one creates and deletes bookings in between
OtherWriter == CHOOSE c \in Clients : c # Writer
NextLocate ==
    \/ LocDeleteFind(Writer)
    \/ LocDeleteRequest(Writer)
    \/ LocUpdateFind(Writer)
    \/ LocUpdateCreate(Writer)
    \/ LocUpdateDelete(Writer)
    \/ LocOtherCreate(OtherWriter)
    \/ DeleteBooking(OtherWriter)

SpecLocate == InitNet /\ [][NextLocate]_vars

\* the call of the first Dashboard has sent its delete request
Mutated ==
    /\ result[Writer].op \in {"deleteBooking", "updateBooking"}
    /\ result[Writer].status = "ok"

\* C23: row-index operations race with other writers: there is an interleaving
\* in which another writer inserts or deletes a row in the same tab between
\* updateBooking's or deleteBooking's locate step (findBookingRow) and its
\* delete request, and the delete request then removes a row that is not the
\* booking that was located.  As an invariant: a delete request removes rows
\* other than the located ones only when another writer has changed the sheet
\* in between; the witnesses are the interleavings.
C23_WrongRowOnlyAfterInterference ==
    (Mutated /\ result[Writer].removed # result[Writer].located)
    => result[Writer].interfered

\* deleteBooking has removed the row of another booking
C23_Witness_DeleteRemovedOtherRow ==
    /\ Mutated
    /\ result[Writer].op = "deleteBooking"
    /\ result[Writer].interfered
    /\ \E k \in 1..Len(result[Writer].removed) :
         /\ result[Writer].removed[k] # result[Writer].located[k]
         /\ parseInt(result[Writer].removed[k].a) # NaN

\* updateBooking has removed the row of another booking
C23_UpdateRemovedOtherRow ==
    /\ Mutated
    /\ result[Writer].op = "updateBooking"
    /\ result[Writer].interfered
    /\ result[Writer].located # <<>>
    /\ result[Writer].removed # result[Writer].located
    /\ parseInt(result[Writer].removed[1].a) # NaN

(***************************************************************************)
(* Two createBooking calls, request by request                             *)
(***************************************************************************)
\* no createBooking call is between its requests
Quiescent == \A c \in Clients : pc[c] \in {"idle", "reload"}

\* the last call of the client was a createBooking that returned success
Created(c) ==
    /\ result[c].op = "createBooking" /\ result[c].status = "ok"
    /\ req[c] # <<>>
    /\ "plan" \in DOMAIN req[c]

\* the clients whose successful call wrote these nine values
WritersOf(values) == {c \in Clients : Created(c) /\ req[c].plan.values = values}

BlankDataRows(rows) == {k \in FirstDataRow..Len(rows) : rows[k] = BlankRow}

\* C24: when two createBooking calls interleave their separate requests (read
\* rows, structural row insert, value write addressed by row number), each
\* successful call's nine values end up in exactly one row of its own: no
\* call's values are overwritten by the other's and no blank inserted row is
\* left behind.
C24_InterleavedCreatesKeepOwnRows ==
    Quiescent
    => /\ \A c \in Clients :
            Created(c)
            => Cardinality(RowsHolding(sheet[req[c].plan.gid], req[c].plan.values))
                 >= Cardinality(WritersOf(req[c].plan.values))
       /\ \A gid \in DOMAIN sheet : BlankDataRows(sheet[gid]) = {}

(***************************************************************************)
(* deleteBooking with several matching rows                                *)
(***************************************************************************)
\* the rows of a tab without the rows numbered in S
WithoutRows(rows, S) ==
    LET kept == SelectSeq([k \in 1..Len(rows) |-> k], LAMBDA k : k \notin S)
    IN  Trim([j \in 1..Len(kept) |-> rows[kept[j]]])

MatchedRowNumbers(finderResult) ==
    {finderResult.allMatches[k].realRowIndex + 1 : k \in 1..Len(finderResult.allMatches)}

DeletesMatched(finderResult, call) ==
    HasTarget(finderResult)
    => /\ call.status = "ok"
       /\ call.sheet[finderResult.gid]
            = WithoutRows(sheet[finderResult.gid], MatchedRowNumbers(finderResult))
       /\ \A other \in DOMAIN sheet :
            other # finderResult.gid => call.sheet[other] = sheet[other]

DeleteCaseOf(b) ==
    ~b.isFixedSchedule
    => DeletesMatched(findBookingRow(b.id, DateOf(b.start_time), sheet),
                      deleteBooking(b.id, DateOf(b.start_time), sheet))

\* C25: when findBookingRow returns several matching rows, deleteBooking
\* deletes every matched row and no other row: the delete requests are issued
\* in strictly descending row index, so each request removes the row that was
\* matched even though earlier deletions shift the rows below them.
C25_DeletesEveryMatchedRow ==
    \A k \in 1..Len(bookings[Writer]) : DeleteCaseOf(bookings[Writer][k])

\* rows 6 and 8 matched NHA TRANG on the 30th at 9:30 and have been deleted;
\* the row of DA LAT that stood between them is row 6 now
C25_Witness_TwoRowsDeleted ==
    /\ result[Writer].op = "deleteBooking"
    /\ result[Writer].status = "ok"
    /\ sheet["0"] = << LabelRow("DECEMBER"), BlankRow, BlankRow, BlankRow, HeaderRow,
                       BookingRow(30, "Chi", "", "DA LAT", "9:30", "12:30", "", "") >>

(***************************************************************************)
(* What deleteBooking leaves                                               *)
(***************************************************************************)
Returned(list) == {list[k] : k \in 1..Len(list)}

\* every other booking returned before the call is returned after it
KeepsOthers(b, call) ==
    call.status = "ok"
    => \A other \in Returned(fetchBookings(sheet)) :
         other.id # b.id => other \in Returned(fetchBookings(call.sheet))

KeepsOthersOf(b) ==
    ~b.isFixedSchedule => KeepsOthers(b, deleteBooking(b.id, DateOf(b.start_time), sheet))

\* C26: deleteBooking(id, date) removes only the booking identified by id:
\* every other booking that fetchBookings returned before the call (another
\* room flagged on the same row, the other time pair of the same row, or a row
\* with the same room, day and start time but a different end time) is still
\* returned after it.
C26_DeleteKeepsOtherBookings ==
    \A k \in 1..Len(bookings[Writer]) : KeepsOthersOf(bookings[Writer][k])

(***************************************************************************)
(* Identifiers: from a booking back to its row                             *)
(***************************************************************************)
\* the rows of the current month's tab from which fetchBookings parses b
RowsParsedTo(b, rows) ==
    {k \in (FirstScanIndex + 1)..Len(rows) :
        b \in Returned(rowBookings(rows[k], b.start_time.y, b.start_time.m))}

RoundTrip(b, rows, finderResult) ==
    /\ HasTarget(finderResult)
    /\ RowsParsedTo(b, rows) # {}
    /\ RowsParsedTo(b, rows) \subseteq MatchedRowNumbers(finderResult)
    /\ \A k \in MatchedRowNumbers(finderResult) :
         /\ isRoomFlag(rows[k].d, "NHA TRANG") \/ b.room_id # "nha-trang"
         /\ isRoomFlag(rows[k].e, "DA LAT") \/ b.room_id # "da-lat"
         /\ parseInt(rows[k].a) = b.start_time.d

RoundTripOf(b) ==
    ~b.isFixedSchedule
    => RoundTrip(b, CurrentRows(sheet), findBookingRow(b.id, DateOf(b.start_time), sheet))

\* C27: identifier round trip: for every one-off booking b returned by
\* fetchBookings, findBookingRow(b.id, date of b) returns a non-empty match list
\* that contains the row from which b was parsed, and only rows of b's room and
\* b's day of month.
C27_IdRoundTrip ==
    \A k \in 1..Len(fetchBookings(sheet)) : RoundTripOf(fetchBookings(sheet)[k])

\* NHA TRANG is booked at 9:30 on the 29th and on the 30th, one row typed as
\* "9:30" by hand, and the booking of the 29th is found in its own row alone
C27_Witness_SameTimeTwoDays ==
    /\ CountOf(fetchBookings(sheet), "nha-trang", Instant(Dec29, 570), Instant(Dec29, 750)) = 1
    /\ CountOf(fetchBookings(sheet), "nha-trang", Instant(Dec30, 570), Instant(Dec30, 750)) = 1
    /\ Len(findBookingRow(<<"nha", "trang", "29", "09:30", "12:30">>, Dec29, sheet).allMatches) = 1

(***************************************************************************)
(* Where createBooking puts the new row                                    *)
(***************************************************************************)
MinOf(S) == CHOOSE k \in S : \A j \in S : k <= j
MaxOf(S) == CHOOSE k \in S : \A j \in S : j <= k

DataRowsOf(rows) == {k \in FirstDataRow..Len(rows) : rows[k].a # ""}
RowsOfDate(rows, day) == {k \in FirstDataRow..Len(rows) : rows[k].a = ToString(day)}
\* the rows of the date that start at or after the new booking
LaterRowsOfDate(rows, day, start) ==
    {k \in RowsOfDate(rows, day) :
        getRowStartTime(rows[k]) # NaN /\ getRowStartTime(rows[k]) >= start}

ExpectedRow(rows, day, start) ==
    IF RowsOfDate(rows, day) = {}
    THEN (IF DataRowsOf(rows) = {} THEN FirstDataRow ELSE MaxOf(DataRowsOf(rows)) + 1)
    ELSE IF LaterRowsOfDate(rows, day, start) # {}
    THEN MinOf(LaterRowsOfDate(rows, day, start))
    ELSE MaxOf(RowsOfDate(rows, day)) + 1

InsertedAt(rows, booking, call) ==
    call.status = "ok"
    => /\ call.rowNumber = ExpectedRow(rows, booking.start_time.d, booking.start_time.min)
       /\ RowAt(call.sheet[call.gid], call.rowNumber) = bookingValues(booking)
       /\ RemoveAt(call.sheet[call.gid], call.rowNumber) = rows

InsertedAtOf(booking) ==
    InsertedAt(sheet[getMonthSheetGID(DateOf(booking.start_time), sheet)], booking,
               createBooking(booking, sheet))

\* C28: insertion position when the target date has no row: createBooking
\* inserts the new row immediately after the last data row with a non-empty
\* date cell, and at the first data row (row 6) when the table holds no data
\* row; when the date already has rows, the new row is inserted immediately
\* before the first of them whose start time is at or after the new start
\* time, else directly after the last of them.
C28_InsertPosition ==
    \A booking \in BookingInputs : InsertedAtOf(booking)

(***************************************************************************)
(* createBooking when the formatting copy fails                            *)
(***************************************************************************)
\* the call whose copyPaste request failed answers as the two writes did and
\* leaves the sheet as they left it
FormatFailureKept(written, call, values) ==
    written.status = "ok"
    => /\ call.status = "ok"
       /\ call.rowNumber = written.rowNumber
       /\ call.gid = written.gid
       /\ RowAt(call.sheet[call.gid], call.rowNumber) = values
       /\ call.sheet = written.sheet

FormatFailureKeptOf(booking) ==
    FormatFailureKept(
        createBookingRunNet(createBookingPlanNet(booking, sheet, FormatStep), sheet,
                            FormatStep),
        createBookingNet(booking, sheet, FormatStep), bookingValues(booking))

\* C29: a failure of the formatting-copy step of createBooking does not fail
\* the operation: createBooking still returns success with the inserted row
\* number, and the row's nine values written in the previous step are
\* unchanged.
C29_FormatFailureKeepsBooking ==
    \A booking \in BookingInputs : FormatFailureKeptOf(booking)

\* a createBooking whose formatting copy failed has answered with success and
\* its row is in the tab
C29_Witness_FormatFailed ==
    /\ result[Writer].op = "createBooking"
    /\ result[Writer].failed = FormatStep
    /\ result[Writer].status = "ok"
    /\ \E booking \in BookingInputs : \E k \in FirstDataRow..Len(sheet["0"]) :
         sheet["0"][k] = bookingValues(booking)

(***************************************************************************)
(* The Facade's writes and the localStorage item mrb_bookings.  The item   *)
(* holds the list fetchBookings saved last, the materialised fixed         *)
(* schedules included; a write is one step, the reload that follows it     *)
(* (getFromCache, then the fetch) two more.                                *)
(***************************************************************************)
\* localStorage.removeItem(CACHE_KEYS.BOOKINGS)
removeItem(store, c) == [store EXCEPT ![c] = <<>>]

\* a write that leaves localStorage alone: createBooking and the three writes
\* of the fixed schedules
StoreKept(c, op, call) ==
    /\ WithinBounds(call.sheet)
    /\ sheet' = call.sheet
    /\ result' = [result EXCEPT ![c] = [op |-> op, status |-> call.status, cited |-> <<>>]]
    /\ pc' = [pc EXCEPT ![c] = "written"]
    /\ UNCHANGED <<bookings, cache, gidCache, clock, sheets, req>>

\* updateBooking and deleteBooking: removeItem is their last statement, which a
\* thrown error skips
StoreRemoved(c, op, call) ==
    /\ WithinBounds(call.sheet)
    /\ sheet' = call.sheet
    /\ UNCHANGED <<gidCache, clock, sheets>>
    /\ cache' = IF call.status = "ok" THEN removeItem(cache, c) ELSE cache
    /\ result' = [result EXCEPT ![c] = [op |-> op, status |-> call.status, cited |-> <<>>]]
    /\ pc' = [pc EXCEPT ![c] = "written"]
    /\ UNCHANGED <<bookings, req>>

StoreCreateSubmitted(c, submitted) ==
    /\ submitted.error = ""
    /\ StoreKept(c, "createBooking", createBooking(submitted.bookingData, sheet))

StoreCreateBooking(c) ==
    /\ pc[c] = "idle"
    /\ \E form \in RaceForms : StoreCreateSubmitted(c, handleSubmit(form, bookings[c]))

StoreUpdateSubmitted(c, initialData, submitted) ==
    /\ submitted.error = ""
    /\ StoreRemoved(c, "updateBooking",
                    updateBooking(initialData.originalId, initialData.date,
                                  submitted.bookingData, sheet))

StoreUpdateForm(c, form) ==
    StoreUpdateSubmitted(c, form.initialData, handleSubmit(form, bookings[c]))

StoreUpdateBooking(c) ==
    /\ pc[c] = "idle"
    /\ \E k \in 1..Len(bookings[c]) : \E form \in RaceForms :
         /\ ~bookings[c][k].isFixedSchedule
         /\ StoreUpdateForm(c, [form EXCEPT !.initialData = handleEditBooking(bookings[c][k]),
                                            !.title = stripBookedBy(bookings[c][k].title)])

StoreDeleteBooking(c) ==
    /\ pc[c] = "idle"
    /\ \E k \in 1..Len(bookings[c]) :
         /\ ~bookings[c][k].isFixedSchedule
         /\ StoreRemoved(c, "deleteBooking",
                         deleteBooking(bookings[c][k].id, DateOf(bookings[c][k].start_time),
                                       sheet))

StoreCreateFixed(c) ==
    /\ pc[c] = "idle"
    /\ \E schedule \in Schedules :
         StoreKept(c, "createFixedSchedule", createFixedSchedule(schedule, sheet))

StoreUpdateFixed(c) ==
    /\ pc[c] = "idle"
    /\ \E schedule \in Schedules : \E id \in ListedIds(fetchFixedSchedules(sheet)) :
         StoreKept(c, "updateFixedSchedule", updateFixedSchedule(id, schedule, sheet))

StoreDeleteFixed(c) ==
    /\ pc[c] = "idle"
    /\ \E id \in ListedIds(fetchFixedSchedules(sheet)) :
         StoreKept(c, "deleteFixedSchedule", deleteFixedSchedule(id, sheet))

\* loadData up to its await, after a write or from the 30 s poll: the cached
\* list is shown if there is one
StoreOpen(c) ==
    /\ pc[c] \in {"idle", "written"}
    /\ pc' = [pc EXCEPT ![c] = "loading"]
    /\ bookings' = [bookings EXCEPT ![c] = IF cache[c] # <<>> THEN cache[c][1] ELSE @]
    /\ result' = [result EXCEPT ![c] =
                    [op |-> "getFromCache", status |-> IF cache[c] # <<>> THEN "ok" ELSE "null",
                     cited |-> <<>>, after |-> result[c].op, written |-> pc[c] = "written"]]
    /\ UNCHANGED <<sheet, req, cache, gidCache, clock, sheets>>

NextStore ==
    \/ StoreCreateBooking(Writer)
    \/ StoreUpdateBooking(Writer)
    \/ StoreDeleteBooking(Writer)
    \/ StoreCreateFixed(Writer)
    \/ StoreUpdateFixed(Writer)
    \/ StoreDeleteFixed(Writer)
    \/ StoreOpen(Writer)
    \/ CacheFetched(Writer)

SpecStore == Init /\ [][NextStore]_vars

WriteOps == {"createBooking", "updateBooking", "deleteBooking",
             "createFixedSchedule", "updateFixedSchedule", "deleteFixedSchedule"}

\* the write of the client has just returned with success
Written(c, ops) ==
    pc[c] = "written" /\ result[c].op \in ops /\ result[c].status = "ok"

\* C30: every successful write operation of the Facade (createBooking,
\* updateBooking, deleteBooking, createFixedSchedule, updateFixedSchedule,
\* deleteFixedSchedule) ends with the local cache entry of the data kind it
\* changed invalidated, so that a later cache read cannot return the
\* pre-write data.
C30_WritesInvalidateCache ==
    Written(Writer, WriteOps) => cache[Writer] = <<>>

\* updateBooking and deleteBooking do end with the item removed
C30_UpdateAndDeleteInvalidate ==
    Written(Writer, {"updateBooking", "deleteBooking"}) => cache[Writer] = <<>>

\* the cache read after a successful createBooking has returned the list of
\* before the write, which is not the list of the sheet
C30_Witness_StaleListShown ==
    /\ pc[Writer] = "loading"
    /\ result[Writer].op = "getFromCache"
    /\ result[Writer].status = "ok"
    /\ result[Writer].written
    /\ result[Writer].after = "createBooking"
    /\ bookings[Writer] # loadData(sheet)

(***************************************************************************)
(* The room flags of a data row.  One data row below the header, each flag *)
(* cell and each pair of times as a person can type them; fetchBookings    *)
(* reads the tab.                                                          *)
(***************************************************************************)
FlagCells == {"", "TRUE", " true ", "FALSE", "Nha Trang", "NHA TRANG", "Da Lat", "DA LAT",
              "MEETING ROOM NHA TRANG", "MEETING ROOM DA LAT"}
MorningPairs == {<<"", "">>, <<"9:30", "10:00">>}
AfternoonPairs == {<<"", "">>, <<"14:00", "14:30">>}

FlagTab(d, e, morning, afternoon) ==
    << LabelRow("DECEMBER"), BlankRow, BlankRow, BlankRow, HeaderRow,
       BookingRow(29, "Chi", d, e, morning[1], morning[2], afternoon[1], afternoon[2]) >>

InitFlags ==
    /\ \E d \in FlagCells, e \in FlagCells, morning \in MorningPairs,
          afternoon \in AfternoonPairs :
         sheet = [gid \in Gids |-> IF gid = "0" THEN FlagTab(d, e, morning, afternoon)
                                   ELSE EmptyTab("JANUARY 2026")]
    /\ bookings = [c \in Clients |-> <<>>]
    /\ result = [c \in Clients |-> NoResult]
    /\ pc = Idle
    /\ req = NoRequest
    /\ cache = [c \in Clients |-> <<>>]
    /\ LocatorAtRest

\* fetchBookings, which saves the list it returns
FlagFetch(c) ==
    /\ pc[c] = "idle"
    /\ result[c].op = "none"
    /\ bookings' = [bookings EXCEPT ![c] = fetchBookings(sheet)]
    /\ UNCHANGED <<gidCache, clock, sheets>>
    /\ cache' = [cache EXCEPT ![c] = <<bookings'[c]>>]
    /\ result' = [result EXCEPT ![c] =
                    [op |-> "fetchBookings", status |-> "ok", cited |-> <<>>]]
    /\ UNCHANGED <<sheet, pc, req>>

NextFlags == \E c \in Clients : FlagFetch(c)

SpecFlags == InitFlags /\ [][NextFlags]_vars

\* the cells that, trimmed and upper-cased, are TRUE or contain the name
QualifyingCells(room) ==
    {"TRUE", " true "}
    \cup (IF room = "nha-trang" THEN {"Nha Trang", "NHA TRANG", "MEETING ROOM NHA TRANG"}
          ELSE {"Da Lat", "DA LAT", "MEETING ROOM DA LAT"})

FlagCellOf(row, room) == IF room = "nha-trang" THEN row.d ELSE row.e
PairsOf(row) ==
    (IF row.f # "" THEN 1 ELSE 0) + (IF row.h # "" THEN 1 ELSE 0)
BookingsOfRoom(list, room) ==
    Cardinality({k \in 1..Len(list) : list[k].room_id = room})

\* the bookings of the row: its pairs for each room whose cell qualifies
AssignedByFlag(row, list) ==
    \A room \in RoomIds :
        BookingsOfRoom(list, room) =
            IF FlagCellOf(row, room) \in QualifyingCells(room) THEN PairsOf(row) ELSE 0

\* C31: a data row is treated as assigned to a room if and only if that
\* room's flag cell, trimmed and upper-cased, is non-empty and either equals
\* TRUE or contains the room's display name; a row whose two flag cells both
\* qualify yields bookings for both rooms, and a row with neither yields none.
C31_RoomAssignedByFlag ==
    \A c \in Clients :
        result[c].op = "fetchBookings"
        => AssignedByFlag(sheet["0"][FirstDataRow], bookings[c])

\* a row whose two cells qualify, one by TRUE in lower case and one by the
\* header text, has been read into a booking for each room
C31_Witness_BothRooms ==
    /\ result[Writer].op = "fetchBookings"
    /\ sheet["0"][FirstDataRow].d = " true "
    /\ sheet["0"][FirstDataRow].e = "MEETING ROOM DA LAT"
    /\ BookingsOfRoom(bookings[Writer], "nha-trang") = 1
    /\ BookingsOfRoom(bookings[Writer], "da-lat") = 1

(***************************************************************************)
(* fetchFixedSchedules and the header of the booking table                 *)
(***************************************************************************)
\* the header signature: the DATE and DAY labels, or a room column holding
\* the MEETING ROOM token
HasHeaderSignature(row) ==
    \/ UpperTrim(row.a) = "DATE" /\ UpperTrim(row.b) = "DAY"
    \/ includes(UpperTrim(row.d), "MEETING ROOM")
    \/ includes(UpperTrim(row.e), "MEETING ROOM")

\* the row of the header, one past the last row when the tab has none
HeaderRowOf(rows) ==
    IF \E k \in 1..Len(rows) : HasHeaderSignature(rows[k])
    THEN CHOOSE k \in 1..Len(rows) :
            /\ HasHeaderSignature(rows[k])
            /\ \A j \in 1..(k - 1) : ~HasHeaderSignature(rows[j])
    ELSE Len(rows) + 1

AboveHeader(listed, rows) ==
    \A k \in 1..Len(listed) : listed[k].row < HeaderRowOf(rows)

\* C32: fetchFixedSchedules stops scanning at the booking-table header row,
\* recognised by DATE/DAY labels or by a room column containing the MEETING
\* ROOM token: no row at or below the header row, in particular no one-off
\* booking row, is ever returned as a fixed schedule.
C32_FixedSchedulesAboveHeader ==
    \A fail \in {NoFailure, "values"} :
        AboveHeader(fetchFixedSchedulesVia(sheet, fail), CurrentRows(sheet))

\* the header with its first two labels typed over; the room columns keep
\* their MEETING ROOM titles
RelabelledHeader == [HeaderRow EXCEPT !.a = "NGAY", !.b = "THU"]

HeaderTabs ==
    { << LabelRow("DECEMBER"),
         FixedRow("Binh", "", "DA LAT", "09:30", "12:30", "", ""),
         BlankRow, BlankRow, header,
         BookingRow(30, "Chi", "NHA TRANG", "", "9:30", "12:30", "", "") >> :
        header \in {HeaderRow, RelabelledHeader} }

InitHeader ==
    /\ \E dec \in HeaderTabs :
         sheet = [gid \in Gids |-> IF gid = "0" THEN dec ELSE EmptyTab("JANUARY 2026")]
    /\ bookings = [c \in Clients |-> loadData(sheet)]
    /\ result = [c \in Clients |-> NoResult]
    /\ pc = Idle
    /\ req = NoRequest
    /\ cache = [c \in Clients |-> <<bookings[c]>>]
    /\ LocatorAtRest

\* the Dashboard over such a tab
SpecHeader == InitHeader /\ [][Next]_vars

\* the same with the header the scan of the API path knows, DATE and DAY
AboveDateDayHeader(listed, rows) ==
    \A k \in 1..Len(listed) : \A j \in 1..Len(rows) :
        isBookingHeader(rows[j]) => listed[k].row < j

C32_FixedSchedulesAboveDateDayHeader ==
    AboveDateDayHeader(fetchFixedSchedules(sheet), CurrentRows(sheet))

(***************************************************************************)
(* Where createFixedSchedule writes                                        *)
(***************************************************************************)
\* FixedScheduleModal.handleSubmit without a schedule being edited, over a
\* header region that may be full; the header is pushed down to MaxHeaderRow
\* at most
PlaceCall(c, call) ==
    /\ \A k \in 1..Len(CurrentRows(call.sheet)) :
         isBookingHeader(CurrentRows(call.sheet)[k]) => k <= MaxHeaderRow
    /\ sheet' = call.sheet
    /\ bookings' = [bookings EXCEPT ![c] = loadData(call.sheet)]
    /\ UNCHANGED <<gidCache, clock, sheets>>
    /\ cache' = [cache EXCEPT ![c] = <<bookings'[c]>>]
    /\ result' = [result EXCEPT ![c] =
                    [op |-> "createFixedSchedule", status |-> call.status,
                     cited |-> call.cited]]

PlaceCreate(c) ==
    /\ pc[c] = "idle"
    /\ \E schedule \in Schedules : PlaceCall(c, createFixedSchedule(schedule, sheet))
    /\ UNCHANGED <<pc, req>>

NextPlace == PlaceCreate(Writer) \/ DeleteFixed(Writer)

\* rows 2..4 hold three fixed schedules, the header is in row 5 and a one-off
\* booking below it
PlaceTabs ==
    { << LabelRow("DECEMBER"), CompactRow("nha-trang", 1), CompactRow(r2, 2),
         CompactRow(r3, 3), HeaderRow,
         BookingRow(30, "Chi", "", "DA LAT", "", "", "15:00", "16:00") >> :
        r2 \in RoomIds, r3 \in RoomIds }

InitPlace ==
    /\ \E dec \in PlaceTabs :
         sheet = [gid \in Gids |-> IF gid = "0" THEN dec ELSE EmptyTab("JANUARY 2026")]
    /\ bookings = [c \in Clients |-> loadData(sheet)]
    /\ result = [c \in Clients |-> NoResult]
    /\ pc = Idle
    /\ req = NoRequest
    /\ cache = [c \in Clients |-> <<bookings[c]>>]
    /\ LocatorAtRest

SpecPlace == InitPlace /\ [][NextPlace]_vars

\* the header and everything below it
TableOf(rows) == SubSeq(rows, HeaderIndex(rows), Len(rows))

\* the row after the last fixed schedule, row 2 when there is none
RowAfterLastFixed(rows) ==
    IF FixedRowsOf(rows) = {} THEN 2 ELSE MaxOf(FixedRowsOf(rows)) + 1

\* the cells of the schedule are in the row after the last fixed schedule, or
\* in a fresh row before the header, and nothing else has changed
PlacedAboveHeader(rows, after, written, values) ==
    IF RowAfterLastFixed(rows) >= HeaderIndex(rows)
    THEN /\ written = HeaderIndex(rows)
         /\ Len(after) = Len(rows) + 1
         /\ after[written] = values
         /\ RemoveAt(after, written) = rows
    ELSE /\ written = RowAfterLastFixed(rows)
         /\ after = [rows EXCEPT ![written] = [values EXCEPT !.a = rows[written].a,
                                                             !.b = rows[written].b]]

PlacedByCreate(rows, call, values) ==
    call.status = "ok"
    => /\ PlacedAboveHeader(rows, CurrentRows(call.sheet), call.row, values)
       /\ TableOf(CurrentRows(call.sheet)) = TableOf(rows)
       /\ call.sheet["1111"] = sheet["1111"]

\* C33: createFixedSchedule never overwrites the booking-table header row or
\* a one-off booking row: the new schedule is written to the row after the
\* last fixed-schedule row, and when that row would be at or past the header
\* row a fresh row is inserted before the header, shifting the header and all
\* booking rows down by one with their contents unchanged.
C33_CreateFixedKeepsTable ==
    \A schedule \in Schedules :
        PlacedByCreate(CurrentRows(sheet), createFixedSchedule(schedule, sheet),
                       fixedValues(schedule))

\* a schedule has been created in a fresh row before the header: the region
\* above the header was full, the header is one row lower and the booking is
\* still below it
C33_Witness_InsertedBeforeHeader ==
    /\ result[Writer].op = "createFixedSchedule"
    /\ result[Writer].status = "ok"
    /\ HeaderIndex(CurrentRows(sheet)) = MaxHeaderRow
    /\ FullRegion(CurrentRows(sheet))
    /\ Len(CurrentRows(sheet)) > MaxHeaderRow

(***************************************************************************)
(* deleteFixedSchedule and the other schedules                             *)
(***************************************************************************)
IsListedRow(entry) == entry.dayOfWeek = 0
\* the schedules of a list, one per row, in the order of their rows
SchedulesOf(listed) ==
    LET rowEntries == SelectSeq(listed, IsListedRow)
    IN  [k \in 1..Len(rowEntries) |->
           [staff_name |-> rowEntries[k].staff_name, room_id |-> rowEntries[k].room_id,
            start_time |-> rowEntries[k].start_time, end_time |-> rowEntries[k].end_time]]

PositionOf(listed, id) ==
    LET rowEntries == SelectSeq(listed, IsListedRow)
    IN  CHOOSE k \in 1..Len(rowEntries) : rowEntries[k].id = id

\* the list after the call is the list before it without the schedule of the
\* id, and the booking table is as it was
RemovesOnly(before, id, call) ==
    /\ call.status = "ok"
    /\ SchedulesOf(fetchFixedSchedules(call.sheet))
         = RemoveAt(SchedulesOf(before), PositionOf(before, id))
    /\ HeaderIndex(CurrentRows(call.sheet)) = HeaderIndex(CurrentRows(sheet))
    /\ TableOf(CurrentRows(call.sheet)) = TableOf(CurrentRows(sheet))
    /\ call.sheet["1111"] = sheet["1111"]

RemovesOnlyFrom(before) ==
    \A id \in ListedIds(before) : RemovesOnly(before, id, deleteFixedSchedule(id, sheet))

\* C34: deleteFixedSchedule removes exactly the schedule of the targeted row:
\* every other fixed schedule returned by fetchFixedSchedules before the call
\* is returned after it with the same staff name, room, start time and end
\* time, and the header row and the one-off booking rows are unchanged.
C34_DeleteFixedRemovesOnlyTarget ==
    RemovesOnlyFrom(fetchFixedSchedules(sheet))

\* a schedule has been deleted from a region of three, and two are listed
C34_Witness_TwoLeft ==
    /\ result[Writer].op = "deleteFixedSchedule"
    /\ result[Writer].status = "ok"
    /\ Len(SchedulesOf(fetchFixedSchedules(sheet))) = 2
    /\ FixedRowsOf(CurrentRows(sheet)) # 2..3

(***************************************************************************)
(* The conflict checks when their reads fail                               *)
(***************************************************************************)
\* the reads of the checks: the A5:I100 read of the booking table and the
\* fetchFixedSchedules call
CheckReads == {"bookingTable", "fixedSchedules"}

\* a failed read makes the check report a failure instead of going on
fixedScheduleCheckClosed(schedule, rowNum, sh, fail) ==
    IF fail \in CheckReads THEN [status |-> "error", cited |-> <<>>]
    ELSE fixedScheduleCheck(schedule, rowNum, sh)

\* both checks of create/updateFixedSchedule: a booking table answered with an
\* error status is not looked at, an error thrown in a check is caught and
\* logged, fetchFixedSchedules answers [] after an error of its own
fixedScheduleCheckNet(schedule, rowNum, sh, fail) ==
    LET gid == getCurrentMonthSheetGID(sh)
        sheetName == getSheetNameFromGid(gid)
        bookingRows == IF fail = "bookingTable" THEN <<>>
                       ELSE ValuesGet(sh[TabOfTitle(sheetName)], BookingTableFirstRow,
                                      BookingTableLastRow)
        bookingHits == bookingTableConflicts(schedule, bookingRows)
        fixedHits == fixedScheduleConflicts(schedule, fetchFixedSchedulesNet(sh, fail), rowNum)
    IN  IF bookingHits # <<>> THEN [status |-> "bookingConflict", cited |-> bookingHits[1]]
        ELSE IF fixedHits # <<>> THEN [status |-> "fixedConflict", cited |-> fixedHits[1]]
        ELSE [status |-> "ok", cited |-> <<>>]

createFixedScheduleChecked(schedule, sh, fail) ==
    createFixedScheduleWrite(
        fixedScheduleCheckNet(schedule, 0, sh, fail),
        fixedPlacement(ValuesGet(sh[TabOfTitle(getSheetNameFromGid(getCurrentMonthSheetGID(sh)))],
                                 1, FixedScanLastRow)),
        schedule, getCurrentMonthSheetGID(sh), sh)

updateFixedScheduleChecked(scheduleId, schedule, sh, fail) ==
    updateFixedScheduleWrite(fixedScheduleCheckNet(schedule, scheduleRow(scheduleId), sh, fail),
                             scheduleRow(scheduleId), schedule, getCurrentMonthSheetGID(sh), sh)

\* the page or the Dashboard after a call whose check could not read
OpenCall(c, op, call, fail) ==
    /\ WithinBounds(call.sheet)
    /\ sheet' = call.sheet
    /\ bookings' = [bookings EXCEPT ![c] = loadData(call.sheet)]
    /\ UNCHANGED <<gidCache, clock, sheets>>
    /\ cache' = [cache EXCEPT ![c] = <<bookings'[c]>>]
    /\ result' = [result EXCEPT ![c] =
                    [op |-> op, status |-> call.status, cited |-> <<>>, failed |-> fail]]

OpenSubmitted(c, submitted, fail) ==
    /\ submitted.error = ""
    /\ OpenCall(c, "createBooking", createBookingNet(submitted.bookingData, sheet, fail), fail)

OpenCreateBooking(c) ==
    /\ pc[c] = "idle"
    /\ \E form \in RaceForms : \E fail \in {"fixedSchedules", NoFailure} :
         OpenSubmitted(c, handleSubmit(form, bookings[c]), fail)
    /\ UNCHANGED <<pc, req>>

OpenCreateFixed(c) ==
    /\ pc[c] = "idle"
    /\ \E schedule \in Schedules : \E fail \in CheckReads \cup {NoFailure} :
         OpenCall(c, "createFixedSchedule",
                  createFixedScheduleChecked(schedule, sheet, fail), fail)
    /\ UNCHANGED <<pc, req>>

OpenUpdateFixed(c) ==
    /\ pc[c] = "idle"
    /\ \E schedule \in Schedules : \E id \in ListedIds(fetchFixedSchedules(sheet)) :
       \E fail \in CheckReads \cup {NoFailure} :
         OpenCall(c, "updateFixedSchedule",
                  updateFixedScheduleChecked(id, schedule, sheet, fail), fail)
    /\ UNCHANGED <<pc, req>>

NextOpen ==
    \/ OpenCreateBooking(Writer)
    \/ OpenCreateFixed(Writer)
    \/ OpenUpdateFixed(Writer)

SpecOpen == Init /\ [][NextOpen]_vars

\* the conflict a failed read would have found
BlockedBy(fail) == IF fail = "bookingTable" THEN "bookingConflict" ELSE "fixedConflict"

\* the call was not aborted for the failed read, nor stopped by the conflict
\* that read would have shown; if nothing else stopped it, the row is written
WroteRow(call, values) ==
    call.status = "ok"
    => \E k \in 2..Len(CurrentRows(call.sheet)) :
         /\ k = call.row
         /\ CurrentRows(call.sheet)[k].c = values.c
         /\ CurrentRows(call.sheet)[k].d = values.d
         /\ CurrentRows(call.sheet)[k].e = values.e
         /\ CurrentRows(call.sheet)[k].f = values.f
         /\ CurrentRows(call.sheet)[k].g = values.g
         /\ CurrentRows(call.sheet)[k].h = values.h
         /\ CurrentRows(call.sheet)[k].i = values.i

\* the check whose read did not fail finds nothing
OtherCheckClear(schedule, rowNum, fail) ==
    IF fail = "bookingTable"
    THEN fixedScheduleConflicts(schedule, fetchFixedSchedules(sheet), rowNum) = <<>>
    ELSE bookingTableConflicts(schedule,
             ValuesGet(CurrentRows(sheet), BookingTableFirstRow, BookingTableLastRow)) = <<>>

FailsOpen(call, fail, otherClear, values) ==
    /\ call.status \notin {"error", BlockedBy(fail)}
    /\ call.status = "ok" <=> otherClear
    /\ WroteRow(call, values)

BookingFailsOpen(call, values) ==
    /\ call.status = "ok"
    /\ RowAt(call.sheet[call.gid], call.rowNumber) = values

\* C35: the conflict checks of createBooking, createFixedSchedule and
\* updateFixedSchedule fail open: when the read of the fixed schedules or of
\* the booking table fails or returns a non-OK response, the operation is not
\* aborted and proceeds to write its row as if no conflict existed.
C35_ConflictChecksFailOpen ==
    /\ \A booking \in BookingInputs :
         BookingFailsOpen(createBookingNet(booking, sheet, "fixedSchedules"),
                          bookingValues(booking))
    /\ \A schedule \in Schedules : \A fail \in CheckReads :
         /\ FailsOpen(createFixedScheduleChecked(schedule, sheet, fail), fail,
                      OtherCheckClear(schedule, 0, fail), fixedValues(schedule))
         /\ \A id \in ListedIds(fetchFixedSchedules(sheet)) :
              FailsOpen(updateFixedScheduleChecked(id, schedule, sheet, fail), fail,
                        OtherCheckClear(schedule, scheduleRow(id), fail),
                        fixedValues(schedule))

\* a fixed schedule has been created although it overlaps a one-off booking
\* of its room: the booking table could not be read
C35_Witness_WrittenOverBooking ==
    /\ result[Writer].op = "createFixedSchedule"
    /\ result[Writer].failed = "bookingTable"
    /\ result[Writer].status = "ok"
    /\ \E schedule \in Schedules :
         /\ \E k \in FixedRowsOf(CurrentRows(sheet)) :
              CurrentRows(sheet)[k].c = schedule.staff_name
              /\ fixedRowEntries(CurrentRows(sheet)[k], k)[1].room_id = schedule.room_id
              /\ fixedRowEntries(CurrentRows(sheet)[k], k)[1].start_time = schedule.start_time
              /\ fixedRowEntries(CurrentRows(sheet)[k], k)[1].end_time = schedule.end_time
         /\ bookingTableConflicts(schedule,
                ValuesGet(CurrentRows(sheet), BookingTableFirstRow, BookingTableLastRow)) # <<>>

(***************************************************************************)
(* Sheet Locator with its cache: getMonthSheetGID as the page runs it, on  *)
(* the gidCache object, the clock and the tabs of the moment               *)
(***************************************************************************)
\* getMonthSheetGID() without a date: the current month
NoDate == [y |-> 0, m |-> 0]
\* the requests of a lookup that can fail: the metadata request, every CSV
\* request (detectGidViaCSV catches the failure and returns null), or all of
\* them when the page is offline
LocatorFailures == {"metadata", "csv", "offline"}

\* the cache test of the current month without the comparison of the key
cachedCurrentMonthAnyKey(gc, isCurrentMonth, monthKey) ==
    isCurrentMonth /\ gc.currentMonth # ""
\* isCurrentMonth && gidCache.currentMonth && gidCache.currentMonthKey === monthKey
cachedCurrentMonth(gc, isCurrentMonth, monthKey) ==
    isCurrentMonth /\ gc.currentMonth # "" /\ gc.currentMonthKey = monthKey
\* !isCurrentMonth && gidCache.futureMonths[monthKey]
cachedOtherMonth(gc, isCurrentMonth, monthKey) ==
    ~isCurrentMonth /\ gc.futureMonths[monthKey] # ""
\* "Cache the result": currentMonth with its key, or futureMonths[monthKey]
cacheGid(gc, isCurrentMonth, monthKey, gid) ==
    IF isCurrentMonth
    THEN [gc EXCEPT !.currentMonth = gid, !.currentMonthKey = monthKey]
    ELSE [gc EXCEPT !.futureMonths[monthKey] = gid]

\* the two loops over sheetsData.sheets: the first tab in the order of the
\* tabs whose title has the month and (the year, or the target month is the
\* month of the clock); monthOnly for the second loop
RECURSIVE titleMatchIn(_, _, _, _, _, _, _)
titleMatchIn(tabs, k, targetMonthName, targetYearStr, monthOnly, targetMonth, nowMonth) ==
    IF k > Len(tabs) THEN ""
    ELSE LET sheetTitle == tabs[k].title
             hasMonth == includes(sheetTitle, targetMonthName)
             hasYear == includes(sheetTitle, targetYearStr)
         IN  IF hasMonth /\ (monthOnly \/ hasYear \/ targetMonth = nowMonth)
             THEN tabs[k].sheetId
             ELSE titleMatchIn(tabs, k + 1, targetMonthName, targetYearStr,
                               monthOnly, targetMonth, nowMonth)

\* the outcome of a lookup: the tab id (or the error thrown), the gidCache
\* it leaves, and the step that produced the id
LocatorOutcome(status, gid, gc, via) ==
    [status |-> status, gid |-> gid, gidCache |-> gc, via |-> via]

getMonthSheetGIDCached(date, now, gc, tabs, sh, fail) ==
    LET targetDate == IF date = NoDate THEN now ELSE date
        targetMonth == targetDate.m
        targetYear == targetDate.y
        monthKey == monthKeyOf(targetYear, targetMonth)
        isCurrentMonth == date = NoDate \/ (targetMonth = now.m /\ targetYear = now.y)
        targetMonthName == monthNames[targetMonth + 1]
        targetYearStr == ToString(targetYear)
        csvGid == IF fail \in {"csv", "offline"} THEN "" ELSE detectGidViaCSV(targetMonthName, sh)
        withYear == IF fail \in {"metadata", "offline"} THEN ""
                    ELSE titleMatchIn(tabs, 1, targetMonthName, targetYearStr,
                                      FALSE, targetMonth, now.m)
        byMonth == IF fail \in {"metadata", "offline"} THEN ""
                   ELSE titleMatchIn(tabs, 1, targetMonthName, targetYearStr,
                                     TRUE, targetMonth, now.m)
        isFutureMonth == targetYear > now.y \/ (targetYear = now.y /\ targetMonth > now.m)
    IN  IF cachedCurrentMonth(gc, isCurrentMonth, monthKey)
        THEN LocatorOutcome("ok", gc.currentMonth, gc, "cache")
        ELSE IF cachedOtherMonth(gc, isCurrentMonth, monthKey)
        THEN LocatorOutcome("ok", gc.futureMonths[monthKey], gc, "cache")
        ELSE IF isCurrentMonth /\ csvGid # ""
        THEN LocatorOutcome("ok", csvGid, cacheGid(gc, isCurrentMonth, monthKey, csvGid), "csv")
        ELSE IF withYear # ""
        THEN LocatorOutcome("ok", withYear, cacheGid(gc, isCurrentMonth, monthKey, withYear),
                            "title")
        ELSE IF byMonth # ""
        THEN LocatorOutcome("ok", byMonth, cacheGid(gc, isCurrentMonth, monthKey, byMonth),
                            "monthOnly")
        ELSE IF csvGid # ""
        THEN LocatorOutcome("ok", csvGid, cacheGid(gc, isCurrentMonth, monthKey, csvGid), "csv")
        ELSE IF isFutureMonth
        THEN LocatorOutcome("error", NotFound, gc, "none")
        ELSE LocatorOutcome("ok", "0", cacheGid(gc, isCurrentMonth, monthKey, "0"), "fallback")

\* the tab lists of the spreadsheet: both tabs in either order, titled with
\* the month alone, the month and the year, or the month and another year
Tab(sheetId, title) == [sheetId |-> sheetId, title |-> title]
TabLists ==
    { SheetsMeta,
      << Tab("1111", "JANUARY 2026"), Tab("0", "DECEMBER") >>,
      << Tab("0", "DECEMBER"), Tab("1111", "DECEMBER 2025") >>,
      << Tab("0", "DECEMBER 2025"), Tab("1111", "DECEMBER 2026") >>,
      << Tab("0", "DECEMBER 2026"), Tab("1111", "DECEMBER 2025") >>,
      << Tab("0", "JANUARY"), Tab("1111", "JANUARY 2026") >>,
      << Tab("0", "FEBRUARY 2026"), Tab("1111", "MARCH 2026") >> }
RECURSIVE titleInFrom(_, _, _)
titleInFrom(tabs, k, gid) ==
    IF k > Len(tabs) THEN ""
    ELSE IF tabs[k].sheetId = gid THEN tabs[k].title
    ELSE titleInFrom(tabs, k + 1, gid)
\* the title of the tab with this id, "" when there is none
TitleIn(tabs, gid) == titleInFrom(tabs, 1, gid)
\* each tab labelled in its first cell with its title
SheetOf(tabs) == [gid \in Gids |-> EmptyTab(TitleIn(tabs, gid))]

\* the clock of the model stops in January 2026
LastClock == [y |-> 2026, m |-> 0]

InitLocator ==
    /\ sheets \in TabLists
    /\ sheet = SheetOf(sheets)
    /\ bookings = [c \in Clients |-> <<>>]
    /\ result = [c \in Clients |-> NoResult]
    /\ pc = Idle
    /\ req = NoRequest
    /\ cache = [c \in Clients |-> <<>>]
    /\ gidCache = [c \in Clients |-> EmptyGidCache]
    /\ clock = [y |-> Now.y, m |-> Now.m]

\* one call of getMonthSheetGID by the page of client c
LocatorLookup(c) ==
    \E date \in LocatorMonths \cup {NoDate}, fail \in LocatorFailures \cup {NoFailure} :
        LET out == getMonthSheetGIDCached(date, clock, gidCache[c], sheets, sheet, fail)
            target == IF date = NoDate THEN clock ELSE date
        IN  /\ result' = [result EXCEPT ![c] =
                    [op |-> "getMonthSheetGID", status |-> out.status, gid |-> out.gid,
                     via |-> out.via, month |-> target,
                     key |-> monthKeyOf(target.y, target.m),
                     current |-> (target = clock), before |-> gidCache[c],
                     now |-> clock, tabs |-> sheets]]
            /\ gidCache' = [gidCache EXCEPT ![c] = out.gidCache]
            /\ UNCHANGED <<sheet, bookings, pc, req, cache, clock, sheets>>

\* the month ends: new Date() is in the next month
MonthRollover ==
    /\ clock # LastClock
    /\ clock' = IF clock.m = 11 THEN [y |-> clock.y + 1, m |-> 0]
                ELSE [y |-> clock.y, m |-> clock.m + 1]
    /\ UNCHANGED <<sheet, bookings, result, pc, req, cache, gidCache, sheets>>

\* somebody adds, renames or reorders tabs in the spreadsheet
EditTabs ==
    /\ \E tabs \in TabLists \ {sheets} :
         /\ sheets' = tabs
         /\ sheet' = SheetOf(tabs)
    /\ UNCHANGED <<bookings, result, pc, req, cache, gidCache, clock>>

NextLocator == LocatorLookup(Writer) \/ MonthRollover \/ EditTabs
SpecLocator == InitLocator /\ [][NextLocator]_vars

\* the last call of client c was a lookup of the locator
LookedUp(c) == result[c].op = "getMonthSheetGID"

\* C36: a lookup for the current month returns the cached tab id only when
\* the cached key is the year-month of the clock, so the first lookup after
\* a month rollover resolves the tab again; a lookup for any other month
\* returns a cached id only from that month's own key.
C36_CacheKeyedByMonth ==
    \A c \in Clients :
        LookedUp(c) =>
            LET call == result[c]
                before == call.before
            IN  /\ (call.current /\ call.via = "cache") =>
                      /\ before.currentMonthKey = call.key
                      /\ call.gid = before.currentMonth
                /\ (call.current /\ before.currentMonthKey # call.key) =>
                      call.via # "cache"
                /\ (~call.current /\ call.via = "cache") =>
                      /\ call.gid = before.futureMonths[call.key]
                      /\ call.gid # ""
                /\ call.via = "cache" => gidCache[c] = before
\* after a rollover the first lookup for the new month resolved the tab again
\* although an id of the month before was cached
C36_Witness_ReResolvedAfterRollover ==
    /\ LookedUp(Writer)
    /\ result[Writer].current
    /\ result[Writer].key = monthKeyOf(LastClock.y, LastClock.m)
    /\ result[Writer].before.currentMonth # ""
    /\ result[Writer].before.currentMonthKey = monthKeyOf(Now.y, Now.m)
    /\ result[Writer].via # "cache"
    /\ result[Writer].status = "ok"

\* the entries of a gidCache: the id of the current month under its key and
\* the ids of futureMonths under theirs
CacheEntries(gc) ==
    {[slot |-> "currentMonth", key |-> gc.currentMonthKey, gid |-> gc.currentMonth] :
        x \in {y \in {gc.currentMonth} : y # ""}}
    \cup {[slot |-> "futureMonths", key |-> k, gid |-> gc.futureMonths[k]] :
            k \in {j \in LocatorKeys : gc.futureMonths[j] # ""}}
MonthOfKey(key) == CHOOSE mo \in LocatorMonths : monthKeyOf(mo.y, mo.m) = key
\* the tab with this id has the month name in its title or in its first cell
PositiveMatch(gid, key, tabs, sh) ==
    LET targetMonthName == monthNames[MonthOfKey(key).m + 1]
    IN  \/ includes(TitleIn(tabs, gid), targetMonthName)
        \/ /\ gid \in DOMAIN sh
           /\ Len(sh[gid]) > 0
           /\ includes(UpperTrim(sh[gid][1].a), targetMonthName)
\* the entries a step adds to the cache of client c, or changes in it
StoredBy(c) == CacheEntries(gidCache'[c]) \ CacheEntries(gidCache[c])

\* C37: every tab id a lookup stores in the locator's cache for a month is
\* the id of a tab whose title or first cell contains the name of that
\* month; a lookup that fails or finds no such tab stores nothing, so the
\* next lookup for that month resolves again.
C37_CachedByPositiveMatch ==
    [][\A c \in Clients :
         /\ \A e \in StoredBy(c) : PositiveMatch(e.gid, e.key, sheets, sheet)
         /\ (result'[c] # result[c] /\ result'[c].via \in {"fallback", "none"})
                => StoredBy(c) = {}]_vars
\* the ids stored by the lookups that did find a tab of the month are ids of
\* such a tab
C37_ResolvedIdsMatch ==
    [][\A c \in Clients :
         (result'[c] # result[c] /\ result'[c].via \in {"csv", "title", "monthOnly"})
             => /\ StoredBy(c) # {}
                /\ \A e \in StoredBy(c) : PositiveMatch(e.gid, e.key, sheets, sheet)]_vars
\* the lookup found no tab of the month and cached the first tab for it
C37_Witness_FallbackCached ==
    /\ LookedUp(Writer)
    /\ result[Writer].via = "fallback"
    /\ \E e \in CacheEntries(gidCache[Writer]) :
         /\ e.key = result[Writer].key
         /\ e.gid = "0"
         /\ ~PositiveMatch(e.gid, e.key, result[Writer].tabs, SheetOf(result[Writer].tabs))

\* the tabs whose title contains both the name and the year of the month
TabsOfMonthAndYear(tabs, month) ==
    {k \in 1..Len(tabs) : /\ includes(tabs[k].title, monthNames[month.m + 1])
                          /\ includes(tabs[k].title, ToString(month.y))}
\* the lookup went to the metadata: no cached id and no CSV match came first
ByMetadata(call) == call.via \in {"title", "monthOnly"}
\* the lookup resolved to a tab titled with the month and the year, where
\* the tabs have one
YearTabPreferred(call) ==
    TabsOfMonthAndYear(call.tabs, call.month) # {} =>
        \E k \in TabsOfMonthAndYear(call.tabs, call.month) :
            call.tabs[k].sheetId = call.gid

\* C38: a lookup answered from the metadata resolves to a tab whose title
\* has both the name and the year of the target month whenever the
\* spreadsheet has such a tab, whatever the order of the tabs.
C38_YearTabPreferred ==
    \A c \in Clients :
        (LookedUp(c) /\ ByMetadata(result[c])) => YearTabPreferred(result[c])
\* the same for a target month whose month number is not the one of the
\* clock: there the first loop takes only titles with the year
C38_YearTabPreferredInOtherMonths ==
    \A c \in Clients :
        (LookedUp(c) /\ ByMetadata(result[c]) /\ result[c].month.m # result[c].now.m)
            => YearTabPreferred(result[c])
\* JANUARY 2026 was taken although the tab JANUARY comes first
C38_Witness_YearTabBehindMonthTab ==
    /\ LookedUp(Writer)
    /\ result[Writer].via = "title"
    /\ result[Writer].month.m # result[Writer].now.m
    /\ result[Writer].gid = "1111"
    /\ result[Writer].tabs = << Tab("0", "JANUARY"), Tab("1111", "JANUARY 2026") >>

====
